---- MODULE Spec2Model ----
(***************************************************************************)
(* Appliance manual knowledge pipeline of the MenuForge worker:            *)
(* create-appliance, the detached ingestion job runApplianceIngestion,     *)
(* update-appliance, and the text resolver extractTextFromPdf.             *)
(*                                                                         *)
(* Every await of the source is one step: the awaited call takes effect    *)
(* (or throws) and the synchronous code after it runs up to the next       *)
(* await. Text is a sequence of one-character strings.                     *)
(***************************************************************************)
EXTENDS Integers, Sequences, FiniteSets, TLC

(***************************************************************************)
(* Bounds of the model.                                                    *)
(***************************************************************************)
\* number of update-appliance requests issued during one behaviour
MaxUpdates == 1
\* number of delete-appliance requests issued during one behaviour
MaxDeletes == 1
\* number of adapt-recipe requests issued during one behaviour
MaxAdapts == 1
\* number of tailor-recipe requests issued during one behaviour
MaxTailors == 1
\* number of requests issued to the four record handlers together during one
\* behaviour of the owner checks
MaxRequests == 2
\* characters of the longest text handed to chunkManualText on its own
MaxTextLen == 7
\* characters of one paragraph of a long manual
LongParaLen == 600
\* in a long manual the embedding model may answer an empty vector only for
\* the chunks below this index
EmptyEmbedBelow == 2

(***************************************************************************)
(* Program constants.                                                      *)
(***************************************************************************)
LocalAcceptLen == 200
QualityDivisor == 4
IngestChunkSize == 1200
IngestOverlap == 200
MaxChunks == 40
AdaptChunkSize == 800
AdaptOverlap == 100
AdaptTopK == 5
AdaptMaxExcerpts == 5

(***************************************************************************)
(* Values.                                                                 *)
(***************************************************************************)
\* the one appliance id crypto.randomUUID() hands out in this model; jobs of
\* different appliances share no key, row or vector id
ApplianceIds == {"a1"}

\* JS null / undefined of a string-typed value, as a text no input contains
NullText == <<"null">>
EmptyText == << >>
NoBytes == "noBytes"
NoUrl == [scheme |-> "none", wellFormed |-> FALSE]
NullKey == [id |-> "none", file |-> "null"]
AdminUser == "admin"

WhiteSpace == {" ", "NL", "CR"}

\* the first and the last position of s that holds a character outside `skip`
FirstOutside(s, skip) ==
  CHOOSE i \in 1..Len(s) : s[i] \notin skip /\ \A j \in 1..(i - 1) : s[j] \in skip
LastOutside(s, skip) ==
  CHOOSE i \in 1..Len(s) : s[i] \notin skip /\ \A j \in (i + 1)..Len(s) : s[j] \in skip

\* String.prototype.trim: from the first to the last non-blank character
Trim(s) ==
  IF \A i \in 1..Len(s) : s[i] \in WhiteSpace THEN << >>
  ELSE SubSeq(s, FirstOutside(s, WhiteSpace), LastOutside(s, WhiteSpace))

\* JS truthiness of an optional string: undefined and '' are falsy
Truthy(s) == s # NullText /\ s # EmptyText

\* n copies of the character c
Rep(n, c) == [i \in 1..n |-> c]

(***************************************************************************)
(* extractTextFromPdf (src/src/ai.ts): the local parser result is NullText *)
(* or a non-empty trimmed text; the OCR model is asked only when the local *)
(* text is absent or at most LocalAcceptLen characters long.               *)
(***************************************************************************)
\* variant: the length test of the early return is turned around
AcceptLocalShort(localText) == Truthy(localText) /\ Len(localText) < LocalAcceptLen

\* `localText && localText.length > 200`: return it without the OCR call
AcceptLocal(localText) == Truthy(localText) /\ Len(localText) > LocalAcceptLen

\* variant: a non-empty OCR text always wins
ResolveWithOcrNoQuality(localText, aiText) ==
  IF Truthy(aiText) /\ Len(aiText) > 0 THEN aiText
  ELSE IF localText # NullText THEN localText ELSE EmptyText

\* the result once the OCR model has answered aiText
ResolveWithOcr(localText, aiText) ==
  IF Truthy(aiText) /\ Len(aiText) > 0
  THEN IF Truthy(localText) /\ Len(aiText) * QualityDivisor < Len(localText)
       THEN localText
       ELSE aiText
  ELSE IF localText # NullText THEN localText ELSE EmptyText

(***************************************************************************)
(* chunkManualText (src/src/worker.ts).                                    *)
(***************************************************************************)
\* text.replace(/\r\n/g, '\n'): every CR that a NL follows is dropped
ReplaceCrLf(s) ==
  LET kept == {i \in 1..Len(s) : ~(s[i] = "CR" /\ i < Len(s) /\ s[i + 1] = "NL")}
      nth(k) == CHOOSE i \in kept : Cardinality({j \in kept : j <= i}) = k
  IN  IF kept = 1..Len(s) THEN s ELSE [k \in 1..Cardinality(kept) |-> s[nth(k)]]

\* s without the newlines it starts with
DropNewlines(s) ==
  IF \A i \in 1..Len(s) : s[i] = "NL" THEN << >>
  ELSE SubSeq(s, FirstOutside(s, {"NL"}), Len(s))

\* String.prototype.split(/\n{2,}/): cut at each run of two or more newlines
RECURSIVE SplitBlankLines(_)
SplitBlankLines(s) ==
  LET breaks == {i \in 1..(Len(s) - 1) : s[i] = "NL" /\ s[i + 1] = "NL"}
      first == CHOOSE i \in breaks : \A j \in breaks : i <= j
  IN  IF breaks = {} THEN <<s>>
      ELSE <<SubSeq(s, 1, first - 1)>>
           \o SplitBlankLines(DropNewlines(SubSeq(s, first, Len(s))))

RECURSIVE TrimAndFilter(_)
TrimAndFilter(parts) ==
  IF parts = << >> THEN << >>
  ELSE IF Trim(Head(parts)) = << >>
       THEN TrimAndFilter(Tail(parts))
       ELSE <<Trim(Head(parts))>> \o TrimAndFilter(Tail(parts))

Paragraphs(text) == TrimAndFilter(SplitBlankLines(ReplaceCrLf(text)))

\* variant: slice(0, n), the head of the string
SliceFirst(s, n) == IF Len(s) <= n THEN s ELSE SubSeq(s, 1, n)

\* String.prototype.slice(-n); slice(-0) is the whole string
SliceLast(s, n) ==
  IF n = 0 \/ Len(s) <= n THEN s ELSE SubSeq(s, Len(s) - n + 1, Len(s))

\* variant: paragraphs are joined with one newline
ParaSepSingle == <<"NL">>

ParaSep == <<"NL", "NL">>

RECURSIVE ChunkLoop(_, _, _, _, _)
ChunkLoop(paragraphs, current, chunks, chunkSize, overlap) ==
  IF paragraphs = << >>
  THEN IF Trim(current) # << >> THEN Append(chunks, Trim(current)) ELSE chunks
  ELSE LET paragraph == Head(paragraphs) IN
       IF Len(Trim(current \o ParaSep \o paragraph)) > chunkSize /\ current # << >>
       THEN ChunkLoop(Tail(paragraphs),
                      SliceLast(current, overlap) \o ParaSep \o paragraph,
                      Append(chunks, Trim(current)), chunkSize, overlap)
       ELSE ChunkLoop(Tail(paragraphs),
                      IF current # << >> THEN current \o ParaSep \o paragraph
                                         ELSE paragraph,
                      chunks, chunkSize, overlap)

chunkManualText(text, chunkSize, overlap) ==
  LET chunks == ChunkLoop(Paragraphs(text), << >>, << >>, chunkSize, overlap)
  IN  IF chunks # << >> THEN chunks ELSE <<text>>

\* Array.prototype.slice(0, n)
TakeFirst(seq, n) == IF Len(seq) <= n THEN seq ELSE SubSeq(seq, 1, n)

\* variant: the chunk list is embedded whole
IngestChunksUncapped(manualText) ==
  chunkManualText(manualText, IngestChunkSize, IngestOverlap)

\* the chunks one ingestion job embeds
IngestChunks(manualText) ==
  TakeFirst(chunkManualText(manualText, IngestChunkSize, IngestOverlap), MaxChunks)

(***************************************************************************)
(* The appliance record and updateKitchenApplianceFields (src/src/db.ts).  *)
(***************************************************************************)
NoSpecs == [present |-> FALSE, parsed |-> FALSE, brand |-> "null",
            model |-> "null", vectorChunkCount |-> 0]

NoRow == [present |-> FALSE, userId |-> "none", nickname |-> "null",
          brand |-> "null", model |-> "null", extractedSpecs |-> NoSpecs,
          manualR2Key |-> NullKey, ocrTextR2Key |-> NullKey,
          agentInstructions |-> NullText, processingStatus |-> "none"]

\* an update that names no field
NoUpdates == [has |-> {}, nickname |-> "null", brand |-> "null", model |-> "null",
              agentInstructions |-> NullText, extractedSpecs |-> NoSpecs,
              manualR2Key |-> NullKey, ocrTextR2Key |-> NullKey,
              processingStatus |-> "QUEUED"]

\* UPDATE kitchen_appliances SET <the fields the update owns> WHERE id = ?
ApplyUpdates(row, u) ==
  IF ~row.present \/ u.has = {} THEN row
  ELSE [row EXCEPT
          !.nickname = IF "nickname" \in u.has THEN u.nickname ELSE @,
          !.brand = IF "brand" \in u.has THEN u.brand ELSE @,
          !.model = IF "model" \in u.has THEN u.model ELSE @,
          !.agentInstructions =
             IF "agentInstructions" \in u.has THEN u.agentInstructions ELSE @,
          !.extractedSpecs =
             IF "extractedSpecs" \in u.has THEN u.extractedSpecs ELSE @,
          !.manualR2Key = IF "manualR2Key" \in u.has THEN u.manualR2Key ELSE @,
          !.ocrTextR2Key = IF "ocrTextR2Key" \in u.has THEN u.ocrTextR2Key ELSE @,
          !.processingStatus =
             IF "processingStatus" \in u.has THEN u.processingStatus ELSE @]

\* variant: the row is inserted as already being processed
CreatedRowProcessing(userId, nickname, manualKey) ==
  [NoRow EXCEPT !.present = TRUE, !.userId = userId, !.nickname = nickname,
                !.manualR2Key = manualKey, !.processingStatus = "PROCESSING"]

\* the row createKitchenAppliance inserts for create-appliance
CreatedRow(userId, nickname, manualKey) ==
  [NoRow EXCEPT !.present = TRUE, !.userId = userId, !.nickname = nickname,
                !.manualR2Key = manualKey, !.processingStatus = "QUEUED"]

(***************************************************************************)
(* Keys, URLs and the external answers.                                    *)
(***************************************************************************)
ManualKeyOf(userId, id) == [id |-> id, file |-> "manual.pdf"]

\* job.manualKey.replace(/manual\.pdf$/i, 'extracted_text.txt')
TextKeyOf(manualKey) ==
  IF manualKey.file = "manual.pdf"
  THEN [manualKey EXCEPT !.file = "extracted_text.txt"]
  ELSE manualKey

BucketKeys == {[id |-> i, file |-> f] :
                 i \in ApplianceIds, f \in {"manual.pdf", "extracted_text.txt"}}
Absent == <<"absent">>

\* new URL(s).protocol: the scheme in lower case, with the colon
LowerCase(w) ==
  CASE w = "HTTP" -> "http" [] w = "HTTPS" -> "https" [] w = "FTP" -> "ftp"
    [] OTHER -> w
UrlProtocol(url) == LowerCase(url.scheme) \o ":"

\* the manual_url form field: absent, blank, or a URL string
BlankUrl == [scheme |-> "blank", wellFormed |-> FALSE]
UrlStrings == {[scheme |-> "HTTPS", wellFormed |-> TRUE],
               [scheme |-> "ftp", wellFormed |-> TRUE],
               [scheme |-> "", wellFormed |-> FALSE]}
UrlFields == {NoUrl, BlankUrl} \cup UrlStrings

\* the text / text_file form field
NoTextField == [kind |-> "none", content |-> EmptyText]
TextContents == {EmptyText, <<" ">>, <<" ", "a", " ">>}
TextFields == {NoTextField}
              \cup [kind : {"file"}, content : TextContents]
              \cup [kind : {"string"}, content : TextContents \ {EmptyText}]
Nicknames == {"Oven"}

\* the requests: every combination of the fields in a parsable multipart body,
\* and one body of each kind the handler turns away before it reads a field
Forms == [multipart : {TRUE}, parsable : {TRUE}, manual : {"none", "file", "string"},
          url : UrlFields, text : TextFields, nickname : Nicknames]
         \cup [multipart : BOOLEAN, parsable : BOOLEAN, manual : {"file"},
               url : {NoUrl}, text : {NoTextField}, nickname : Nicknames]

\* answers of the local parser, the OCR model and the generation model
LongLocalText == Rep(LocalAcceptLen + 1, "l")
LocalAnswers == {NullText, Rep(5, "l"), LongLocalText}
OcrAnswers == {EmptyText, <<"o">>, <<"o", " ">>}
NoParsedSpecs == [parsed |-> FALSE, brand |-> "null", model |-> "null"]
SpecAnswers == {[kind |-> "unparsable", brand |-> "null", model |-> "null"],
                [kind |-> "json", brand |-> "Acme", model |-> "null"]}
InstructionAnswers == {<<" ">>, <<" ", "u">>}

\* the try block of extractApplianceSpecs: JSON.parse and the field reads
ParseSpecs(answer) ==
  IF answer.kind = "json"
  THEN [parsed |-> TRUE, brand |-> answer.brand, model |-> answer.model]
  ELSE NoParsedSpecs

(***************************************************************************)
(* State.                                                                  *)
(***************************************************************************)
VARIABLES
  rows,      \* kitchen_appliances: id -> row (NoRow when there is none)
  bucket,    \* APPLIANCE_BUCKET: key -> stored content (Absent when none)
  vecIndex,  \* APPLIANCE_VEC: the vector ids stored, <<appliance id, chunk index>>
  req,       \* the create-appliance request of each id: position, form, response
  job,       \* the ingestion job of each id: position, payload, locals
  upd,       \* the update-appliance request in flight
  updCount,  \* update-appliance requests issued so far
  effects,   \* per job, the external effects it has performed so far
  fetched,   \* the URLs runApplianceIngestion has passed to fetch
  pdf,       \* one call of extractTextFromPdf: the parser's and the OCR model's
             \* answers for the document, the position, the result
  cap,       \* the chunking and embedding of one long manual, by lengths and counts
  chunker,   \* one call of chunkManualText: the arguments, the position, the result
  del,       \* the delete-appliance request in flight or last answered
  delCount,  \* delete-appliance requests issued so far
  adaptCount, \* adapt-recipe requests issued so far
  adapt,     \* the adapt-recipe request in flight or last answered
  tailorCount, \* tailor-recipe requests issued so far
  tailor     \* the tailor-recipe request in flight or last answered

vars == <<rows, bucket, vecIndex, req, job, upd, updCount, effects, fetched, pdf,
         cap, chunker, del, delCount, adaptCount, adapt, tailorCount, tailor>>

NoForm == [multipart |-> FALSE, parsable |-> FALSE, manual |-> "none", url |-> NoUrl,
           text |-> NoTextField, nickname |-> "null"]
NoReq == [pc |-> "none", form |-> NoForm, resp |-> 0, threw |-> FALSE]

NoJob == [pc |-> "idle", userId |-> "none", manualKey |-> NullKey, manualUrl |-> NoUrl,
          pdfBytes |-> NoBytes, nickname |-> "null", extractedText |-> NullText,
          manualBytes |-> NoBytes, localText |-> NullText, manualText |-> NullText,
          specs |-> NoParsedSpecs, agentInstructions |-> NullText,
          chunks |-> << >>, index |-> 0, vectors |-> {}, failedAt |-> "none"]

NoPdf == [pc |-> "none", local |-> NullText, ocr |-> EmptyText, result |-> NullText,
          ocrCalled |-> FALSE]

NoCap == [pc |-> "none", paragraphs |-> 0, produced |-> 0, chunkLens |-> << >>,
          index |-> 0, calls |-> 0, vectors |-> 0, vectorChunkCount |-> 0]

NoChunker == [pc |-> "none", text |-> << >>, chunkSize |-> 0, overlap |-> 0,
              chunks |-> << >>]

NoDel == [pc |-> "idle", userId |-> "none", id |-> "none", appliance |-> NoRow,
          keys |-> {}, vecIds |-> {}, legacyIds |-> {}, resp |-> 0]

NoQuery == [applianceId |-> "none", userId |-> "none", topK |-> 0]

NoAdapt == [pc |-> "idle", userId |-> "none", applianceId |-> "none",
            query |-> NoQuery, matched |-> 0,
            recipeFound |-> FALSE, originalSteps |-> << >>, appliance |-> NoRow,
            calls |-> {}, excerpts |-> 0, readFailed |-> FALSE, genText |-> FALSE,
            raw |-> << >>, tailoredSteps |-> << >>, summaryOfChanges |-> "",
            threwAt |-> "none", resp |-> 0]

NoTailor == [pc |-> "idle", userId |-> "none", applianceId |-> "none",
             recipeFound |-> FALSE, originalSteps |-> << >>, appliance |-> NoRow,
             tailoredSteps |-> << >>, threw |-> FALSE, resp |-> 0]

NoUpd == [pc |-> "idle", userId |-> "none", id |-> "none", updates |-> NoUpdates,
          resp |-> 0]

Init ==
  /\ rows = [i \in ApplianceIds |-> NoRow]
  /\ bucket = [k \in BucketKeys |-> Absent]
  /\ vecIndex = {}
  /\ req = [i \in ApplianceIds |-> NoReq]
  /\ job = [i \in ApplianceIds |-> NoJob]
  /\ upd = NoUpd
  /\ updCount = 0
  /\ effects = [i \in ApplianceIds |-> {}]
  /\ fetched = {}
  /\ tailor = NoTailor
  /\ tailorCount = 0
  /\ adapt = NoAdapt
  /\ adaptCount = 0
  /\ delCount = 0
  /\ del = NoDel
  /\ chunker = NoChunker
  /\ cap = NoCap
  /\ pdf = NoPdf

(***************************************************************************)
(* create-appliance: app.post('/api/kitchen/appliances').                  *)
(***************************************************************************)
hasFile(form) == form.manual = "file"
hasUrl(form) == form.url # NoUrl /\ form.url # BlankUrl
hasTextFile(form) == form.text.kind = "file"
hasTextString(form) == form.text.kind = "string" /\ Len(Trim(form.text.content)) > 0

\* variant: the handler does not ask for an upload field
ValidationStatusNoFieldTest(form) ==
  IF ~form.multipart THEN 400
  ELSE IF ~form.parsable THEN 400
  ELSE IF form.manual = "string" THEN 400
  ELSE 0

\* the status the handler answers before it touches the store; 0: it goes on
ValidationStatus(form) ==
  IF ~form.multipart THEN 400
  ELSE IF ~form.parsable THEN 400
  ELSE IF ~hasFile(form) /\ ~hasUrl(form) /\ ~hasTextFile(form) /\ ~hasTextString(form)
       THEN 400
  ELSE IF form.manual = "string" THEN 400
  ELSE 0

\* the job the handler builds from the form
JobOf(id, form) ==
  [NoJob EXCEPT
     !.pc = "procUpdate",
     !.userId = AdminUser,
     !.manualKey = ManualKeyOf(AdminUser, id),
     !.manualUrl = IF hasUrl(form) THEN form.url ELSE NoUrl,
     !.pdfBytes = IF hasFile(form) THEN "fileBytes" ELSE NoBytes,
     !.nickname = form.nickname,
     !.extractedText =
        IF hasTextFile(form) THEN form.text.content
        ELSE IF hasTextString(form) THEN Trim(form.text.content)
        ELSE NullText]

\* the handler's catch block: a throw is answered 500
Thrown500(r) == [r EXCEPT !.pc = "responded", !.resp = 500, !.threw = TRUE]

\* the request arrives; content type, form parsing and field validation
CreateRequest(id, form) ==
  /\ req[id].pc = "none"
  /\ req' = [req EXCEPT ![id] =
               IF ValidationStatus(form) # 0
               THEN [NoReq EXCEPT !.pc = "responded", !.form = form,
                                  !.resp = ValidationStatus(form)]
               ELSE [NoReq EXCEPT !.pc = "ensureUser", !.form = form]]
  /\ UNCHANGED <<tailor, tailorCount, adapt, adaptCount, delCount, del, chunker, cap,
                 pdf, rows, bucket, vecIndex, job, upd, updCount, effects, fetched>>

\* INSERT OR IGNORE INTO users; a throw is answered 500
CreateEnsureUser(id, ok) ==
  /\ req[id].pc = "ensureUser"
  /\ req' = [req EXCEPT ![id] =
               IF ok THEN [@ EXCEPT !.pc = "insert"]
               ELSE Thrown500(@)]
  /\ UNCHANGED <<tailor, tailorCount, adapt, adaptCount, delCount, del, chunker, cap,
                 pdf, rows, bucket, vecIndex, job, upd, updCount, effects, fetched>>

\* createKitchenAppliance: the INSERT
CreateInsert(id, ok) ==
  /\ req[id].pc = "insert"
  /\ IF ok
     THEN /\ rows' = [rows EXCEPT ![id] =
                        CreatedRow(AdminUser, req[id].form.nickname,
                                   ManualKeyOf(AdminUser, id))]
          /\ req' = [req EXCEPT ![id].pc = "readBack"]
     ELSE /\ rows' = rows
          /\ req' = [req EXCEPT ![id] = Thrown500(@)]
  /\ UNCHANGED <<tailor, tailorCount, adapt, adaptCount, delCount, del, chunker, cap,
                 pdf, bucket, vecIndex, job, upd, updCount, effects, fetched>>

\* createKitchenAppliance: the read back; then waitUntil(runApplianceIngestion(..))
\* and the 202 answer, with no await between them
CreateReadBack(id, ok) ==
  /\ req[id].pc = "readBack"
  /\ IF ok /\ rows[id].present
     THEN /\ job' = [job EXCEPT ![id] = JobOf(id, req[id].form)]
          /\ req' = [req EXCEPT ![id].pc = "responded", ![id].resp = 202]
     ELSE /\ job' = job
          /\ req' = [req EXCEPT ![id] = Thrown500(@)]
  /\ UNCHANGED <<tailor, tailorCount, adapt, adaptCount, delCount, del, chunker, cap,
                 pdf, rows, bucket, vecIndex, upd, updCount, effects, fetched>>

(***************************************************************************)
(* runApplianceIngestion (src/src/worker.ts): the synchronous code between *)
(* two awaits, as a function of the job's locals.                          *)
(***************************************************************************)
\* variant: the job starts its work without writing PROCESSING
ProcessingUpdatesMissing == NoUpdates

\* the update that opens the job
ProcessingUpdates == [NoUpdates EXCEPT !.has = {"processingStatus"},
                                       !.processingStatus = "PROCESSING"]

\* the update of the catch block
FailedUpdates == [NoUpdates EXCEPT !.has = {"processingStatus"},
                                   !.processingStatus = "FAILED"]

\* the job once the try block's locals are out of scope
Leave(j, pc, stage) ==
  [j EXCEPT !.pc = pc, !.failedAt = stage,
            !.manualBytes = NoBytes, !.localText = NullText, !.manualText = NullText,
            !.specs = NoParsedSpecs, !.agentInstructions = NullText,
            !.chunks = << >>, !.index = 0, !.vectors = {}]

\* a throw inside the try block: the catch block issues the FAILED update
Catch(j, stage) == Leave(j, "failUpdate", stage)

\* variant: the caller's text is used as it came, untrimmed
SelectTextUntrimmed(j) ==
  IF Truthy(j.extractedText)
  THEN [j EXCEPT !.manualText = j.extractedText, !.pc = "putText"]
  ELSE IF j.manualBytes # NoBytes
       THEN [j EXCEPT !.pc = "localExtract"]
       ELSE Catch(j, "noInput")

\* `if (job.extractedText) .. else if (manualBytes) .. else throw`
SelectText(j) ==
  IF Truthy(j.extractedText)
  THEN [j EXCEPT !.manualText = Trim(j.extractedText), !.pc = "putText"]
  ELSE IF j.manualBytes # NoBytes
       THEN [j EXCEPT !.pc = "localExtract"]
       ELSE Catch(j, "noInput")

\* variant: the bytes are not stored before the text is extracted
StoreManualSkipped(j) == SelectText(j)

\* `if (manualBytes) await put(manualKey, ..)`
StoreManual(j) ==
  IF j.manualBytes # NoBytes THEN [j EXCEPT !.pc = "putManual"] ELSE SelectText(j)

\* variant: ftp is let through as well
AllowedProtocolWithFtp(url) == UrlProtocol(url) \in {"http:", "https:", "ftp:"}

\* `['http:', 'https:'].includes(url.protocol)`
AllowedProtocol(url) == UrlProtocol(url) \in {"http:", "https:"}

\* the head of the try block: payload bytes, or the URL checks and the fetch
AcquireBytes(j) ==
  IF j.pdfBytes = NoBytes /\ j.manualUrl # NoUrl
  THEN IF ~j.manualUrl.wellFormed THEN Catch(j, "url")
       ELSE IF ~AllowedProtocol(j.manualUrl) THEN Catch(j, "url")
       ELSE [j EXCEPT !.pc = "fetch"]
  ELSE StoreManual([j EXCEPT !.manualBytes = j.pdfBytes])

\* extractApplianceSpecs up to its model call: blank text gives null at once
AfterTextStored(j) ==
  IF Trim(j.manualText) = EmptyText
  THEN [j EXCEPT !.specs = NoParsedSpecs, !.pc = "prefs"]
  ELSE [j EXCEPT !.pc = "specCall"]

\* the embedding loop from job.index on, up to the next embedding-model call:
\* embedText answers [] for a blank chunk without a call
RECURSIVE EmbedLoop(_)
EmbedLoop(j) ==
  IF j.index < Len(j.chunks)
  THEN IF Trim(j.chunks[j.index + 1]) = EmptyText
       THEN EmbedLoop([j EXCEPT !.index = j.index + 1])
       ELSE [j EXCEPT !.pc = "embed"]
  ELSE IF j.vectors # {} THEN [j EXCEPT !.pc = "upsert"]
       ELSE [j EXCEPT !.pc = "finalUpdate"]

\* variant: the closing update sets the status and the keys but not the specs
CompletedUpdatesNoSpecs(j) ==
  [NoUpdates EXCEPT
     !.has = {"ocrTextR2Key", "manualR2Key", "processingStatus", "agentInstructions"},
     !.ocrTextR2Key = TextKeyOf(j.manualKey),
     !.manualR2Key = j.manualKey,
     !.processingStatus = "COMPLETED",
     !.agentInstructions =
        IF j.agentInstructions # EmptyText THEN j.agentInstructions ELSE NullText]

\* variant: the closing update counts the chunks, not the vectors
CompletedUpdatesCountingChunks(j) ==
  [NoUpdates EXCEPT
     !.has = {"ocrTextR2Key", "manualR2Key", "processingStatus", "agentInstructions",
              "extractedSpecs"},
     !.ocrTextR2Key = TextKeyOf(j.manualKey),
     !.manualR2Key = j.manualKey,
     !.processingStatus = "COMPLETED",
     !.agentInstructions =
        IF j.agentInstructions # EmptyText THEN j.agentInstructions ELSE NullText,
     !.extractedSpecs = [present |-> TRUE, parsed |-> j.specs.parsed,
                         brand |-> j.specs.brand, model |-> j.specs.model,
                         vectorChunkCount |-> Len(j.chunks)]]

\* specsForStorage and the update that closes a successful job
CompletedUpdates(j) ==
  [NoUpdates EXCEPT
     !.has = {"ocrTextR2Key", "manualR2Key", "processingStatus", "agentInstructions",
              "extractedSpecs"}
             \cup (IF j.specs.parsed /\ j.specs.brand \notin {"null", ""}
                   THEN {"brand"} ELSE {})
             \cup (IF j.specs.parsed /\ j.specs.model \notin {"null", ""}
                   THEN {"model"} ELSE {}),
     !.ocrTextR2Key = TextKeyOf(j.manualKey),
     !.manualR2Key = j.manualKey,
     !.processingStatus = "COMPLETED",
     !.agentInstructions =
        IF j.agentInstructions # EmptyText THEN j.agentInstructions ELSE NullText,
     !.extractedSpecs = [present |-> TRUE, parsed |-> j.specs.parsed,
                         brand |-> j.specs.brand, model |-> j.specs.model,
                         vectorChunkCount |-> Cardinality(j.vectors)],
     !.brand = j.specs.brand,
     !.model = j.specs.model]

(***************************************************************************)
(* runApplianceIngestion: one action per awaited call.                     *)
(***************************************************************************)
ThrownText == <<"thrown">>
ThrownSpec == [kind |-> "thrown", brand |-> "null", model |-> "null"]
FetchOutcomes == {"ok", "notOk", "networkError", "bodyError"}
EmbedOutcomes == {"vector", "empty", "thrown"}

\* line 662, outside the try block: the UPDATE of updateKitchenApplianceFields
JobProcUpdate(id, ok) ==
  /\ job[id].pc = "procUpdate"
  /\ IF ok
     THEN /\ rows' = [rows EXCEPT ![id] = ApplyUpdates(@, ProcessingUpdates)]
          /\ job' = [job EXCEPT ![id].pc = "procRead"]
     ELSE /\ rows' = rows
          /\ job' = [job EXCEPT ![id].pc = "rejected", ![id].failedAt = "procUpdate"]
  /\ UNCHANGED <<tailor, tailorCount, adapt, adaptCount, delCount, del, chunker, cap,
                 pdf, bucket, vecIndex, req, upd, updCount, effects, fetched>>

\* line 662: the read back of updateKitchenApplianceFields; then the try block
JobProcRead(id, ok) ==
  /\ job[id].pc = "procRead"
  /\ job' = [job EXCEPT ![id] =
               IF ok THEN AcquireBytes(@)
               ELSE [@ EXCEPT !.pc = "rejected", !.failedAt = "procRead"]]
  /\ UNCHANGED <<tailor, tailorCount, adapt, adaptCount, delCount, del, chunker, cap,
                 pdf, rows, bucket, vecIndex, req, upd, updCount, effects, fetched>>

\* fetch(url.href), response.ok and response.arrayBuffer()
JobFetch(id, outcome) ==
  /\ job[id].pc = "fetch"
  /\ fetched' = fetched \cup {job[id].manualUrl}
  /\ effects' = [effects EXCEPT ![id] = @ \cup {"fetch"}]
  /\ job' = [job EXCEPT ![id] =
               IF outcome = "ok" THEN StoreManual([@ EXCEPT !.manualBytes = "urlBytes"])
               ELSE Catch(@, "download")]
  /\ UNCHANGED <<tailor, tailorCount, adapt, adaptCount, delCount, del, chunker, cap,
                 pdf, rows, bucket, vecIndex, req, upd, updCount>>

\* APPLIANCE_BUCKET.put(job.manualKey, manualBytes)
JobPutManual(id, ok) ==
  /\ job[id].pc = "putManual"
  /\ IF ok
     THEN /\ bucket' = [bucket EXCEPT ![job[id].manualKey] = <<job[id].manualBytes>>]
          /\ effects' = [effects EXCEPT ![id] = @ \cup {"putManual"}]
          /\ job' = [job EXCEPT ![id] = SelectText(@)]
     ELSE /\ UNCHANGED <<bucket, effects>>
          /\ job' = [job EXCEPT ![id] = Catch(@, "storeManual")]
  /\ UNCHANGED <<tailor, tailorCount, adapt, adaptCount, delCount, del, chunker, cap,
                 pdf, rows, vecIndex, req, upd, updCount, fetched>>

\* extractTextFromPdf: tryExtractWithPdfJs, which never throws
JobLocalExtract(id, localText) ==
  /\ job[id].pc = "localExtract"
  /\ effects' = [effects EXCEPT ![id] = @ \cup {"localExtract"}]
  /\ job' = [job EXCEPT ![id] =
               IF AcceptLocal(localText)
               THEN [@ EXCEPT !.localText = localText, !.manualText = Trim(localText),
                              !.pc = "putText"]
               ELSE [@ EXCEPT !.localText = localText, !.pc = "ocr"]]
  /\ UNCHANGED <<tailor, tailorCount, adapt, adaptCount, delCount, del, chunker, cap,
                 pdf, rows, bucket, vecIndex, req, upd, updCount, fetched>>

\* extractTextFromPdf: extractTextFromPdfViaAi and the choice between the texts
JobOcr(id, aiText) ==
  /\ job[id].pc = "ocr"
  /\ effects' = [effects EXCEPT ![id] = @ \cup {"ocr"}]
  /\ job' = [job EXCEPT ![id] =
               IF aiText = ThrownText THEN Catch(@, "extract")
               ELSE [@ EXCEPT !.manualText = Trim(ResolveWithOcr(job[id].localText, aiText)),
                              !.pc = "putText"]]
  /\ UNCHANGED <<tailor, tailorCount, adapt, adaptCount, delCount, del, chunker, cap,
                 pdf, rows, bucket, vecIndex, req, upd, updCount, fetched>>

\* APPLIANCE_BUCKET.put(textKey, manualText)
JobPutText(id, ok) ==
  /\ job[id].pc = "putText"
  /\ IF ok
     THEN /\ bucket' = [bucket EXCEPT ![TextKeyOf(job[id].manualKey)] = job[id].manualText]
          /\ effects' = [effects EXCEPT ![id] = @ \cup {"putText"}]
          /\ job' = [job EXCEPT ![id] = AfterTextStored(@)]
     ELSE /\ UNCHANGED <<bucket, effects>>
          /\ job' = [job EXCEPT ![id] = Catch(@, "storeText")]
  /\ UNCHANGED <<tailor, tailorCount, adapt, adaptCount, delCount, del, chunker, cap,
                 pdf, rows, vecIndex, req, upd, updCount, fetched>>

\* extractApplianceSpecs: the model call (outside its try) and the parse
JobSpecCall(id, answer) ==
  /\ job[id].pc = "specCall"
  /\ effects' = [effects EXCEPT ![id] = @ \cup {"specCall"}]
  /\ job' = [job EXCEPT ![id] =
               IF answer = ThrownSpec THEN Catch(@, "spec")
               ELSE [@ EXCEPT !.specs = ParseSpecs(answer), !.pc = "prefs"]]
  /\ UNCHANGED <<tailor, tailorCount, adapt, adaptCount, delCount, del, chunker, cap,
                 pdf, rows, bucket, vecIndex, req, upd, updCount, fetched>>

\* getUserPreferences
JobPrefs(id, ok) ==
  /\ job[id].pc = "prefs"
  /\ job' = [job EXCEPT ![id] =
               IF ok THEN [@ EXCEPT !.pc = "instrCall"] ELSE Catch(@, "prefs")]
  /\ UNCHANGED <<tailor, tailorCount, adapt, adaptCount, delCount, del, chunker, cap,
                 pdf, rows, bucket, vecIndex, req, upd, updCount, effects, fetched>>

\* generateApplianceInstructions; then chunking and the head of the embed loop
JobInstrCall(id, answer) ==
  /\ job[id].pc = "instrCall"
  /\ effects' = [effects EXCEPT ![id] = @ \cup {"instrCall"}]
  /\ job' = [job EXCEPT ![id] =
               IF answer = ThrownText THEN Catch(@, "instr")
               ELSE EmbedLoop([@ EXCEPT !.agentInstructions = Trim(answer),
                                        !.chunks = IngestChunks(job[id].manualText),
                                        !.index = 0, !.vectors = {}])]
  /\ UNCHANGED <<tailor, tailorCount, adapt, adaptCount, delCount, del, chunker, cap,
                 pdf, rows, bucket, vecIndex, req, upd, updCount, fetched>>

\* embedText(env, chunks[index]): the embedding-model call
JobEmbed(id, outcome) ==
  /\ job[id].pc = "embed"
  /\ effects' = [effects EXCEPT ![id] = @ \cup {"embed"}]
  /\ job' = [job EXCEPT ![id] =
               CASE outcome = "thrown" -> Catch(@, "embed")
                 [] outcome = "empty" -> EmbedLoop([@ EXCEPT !.index = @ + 1])
                 [] OTHER -> EmbedLoop([@ EXCEPT !.vectors = @ \cup {job[id].index},
                                                 !.index = @ + 1])]
  /\ UNCHANGED <<tailor, tailorCount, adapt, adaptCount, delCount, del, chunker, cap,
                 pdf, rows, bucket, vecIndex, req, upd, updCount, fetched>>

\* APPLIANCE_VEC.upsert(vectors)
JobUpsert(id, ok) ==
  /\ job[id].pc = "upsert"
  /\ IF ok
     THEN /\ vecIndex' = vecIndex \cup {<<id, i>> : i \in job[id].vectors}
          /\ effects' = [effects EXCEPT ![id] = @ \cup {"upsert"}]
          /\ job' = [job EXCEPT ![id].pc = "finalUpdate"]
     ELSE /\ UNCHANGED <<vecIndex, effects>>
          /\ job' = [job EXCEPT ![id] = Catch(@, "upsert")]
  /\ UNCHANGED <<tailor, tailorCount, adapt, adaptCount, delCount, del, chunker, cap,
                 pdf, rows, bucket, req, upd, updCount, fetched>>

\* line 758: the UPDATE of the closing updateKitchenApplianceFields
JobFinalUpdate(id, ok) ==
  /\ job[id].pc = "finalUpdate"
  /\ IF ok
     THEN /\ rows' = [rows EXCEPT ![id] = ApplyUpdates(@, CompletedUpdates(job[id]))]
          /\ job' = [job EXCEPT ![id].pc = "finalRead"]
     ELSE /\ rows' = rows
          /\ job' = [job EXCEPT ![id] = Catch(@, "finalUpdate")]
  /\ UNCHANGED <<tailor, tailorCount, adapt, adaptCount, delCount, del, chunker, cap,
                 pdf, bucket, vecIndex, req, upd, updCount, effects, fetched>>

\* line 758: its read back, still inside the try block
JobFinalRead(id, ok) ==
  /\ job[id].pc = "finalRead"
  /\ job' = [job EXCEPT ![id] =
               IF ok THEN Leave(@, "done", "none") ELSE Catch(@, "finalRead")]
  /\ UNCHANGED <<tailor, tailorCount, adapt, adaptCount, delCount, del, chunker, cap,
                 pdf, rows, bucket, vecIndex, req, upd, updCount, effects, fetched>>

\* line 761, the catch block: the UPDATE; a throw here rejects the job's promise
JobFailUpdate(id, ok) ==
  /\ job[id].pc = "failUpdate"
  /\ IF ok
     THEN /\ rows' = [rows EXCEPT ![id] = ApplyUpdates(@, FailedUpdates)]
          /\ job' = [job EXCEPT ![id].pc = "failRead"]
     ELSE /\ rows' = rows
          /\ job' = [job EXCEPT ![id].pc = "rejected"]
  /\ UNCHANGED <<tailor, tailorCount, adapt, adaptCount, delCount, del, chunker, cap,
                 pdf, bucket, vecIndex, req, upd, updCount, effects, fetched>>

\* line 761: its read back
JobFailRead(id, ok) ==
  /\ job[id].pc = "failRead"
  /\ job' = [job EXCEPT ![id].pc = IF ok THEN "done" ELSE "rejected"]
  /\ UNCHANGED <<tailor, tailorCount, adapt, adaptCount, delCount, del, chunker, cap,
                 pdf, rows, bucket, vecIndex, req, upd, updCount, effects, fetched>>

(***************************************************************************)
(* update-appliance: app.put('/api/kitchen/appliances/:id').               *)
(***************************************************************************)
\* requireUserId: no user, the owner, another user
Callers == {"none", AdminUser, "other"}

\* `typeof v === 'string' ? v.trim() || null : null` on a name
NameOrNull(v) == IF v = "" THEN "null" ELSE v
\* the same on a text
TextOrNull(t) == IF t = NullText \/ Trim(t) = EmptyText THEN NullText ELSE Trim(t)

\* JSON bodies: the own properties present and their values
NoBody == [has |-> {}, nickname |-> "null", brand |-> "null", model |-> "null",
           agentInstructions |-> NullText]
Bodies == {NoBody,
           [NoBody EXCEPT !.has = {"brand", "agentInstructions"}, !.brand = "UserBrand",
                          !.agentInstructions = <<"m", " ">>],
           [NoBody EXCEPT !.has = {"nickname", "model"}, !.nickname = "",
                          !.model = "UserModel"]}

\* the requests: each body from the owner, one from anybody else
UpdateRequests == [caller : {AdminUser}, body : Bodies]
                  \cup [caller : Callers, body : {CHOOSE b \in Bodies : "brand" \in b.has}]

\* a handler that also passed the processing status on to the store; the
\* handler of lines 1414-1430 does not
UpdatesOfWithStatus(body) ==
  [NoUpdates EXCEPT
     !.has = (body.has \cap {"nickname", "brand", "model", "agentInstructions"})
             \cup {"processingStatus"},
     !.nickname = NameOrNull(body.nickname),
     !.brand = NameOrNull(body.brand),
     !.model = NameOrNull(body.model),
     !.agentInstructions = TextOrNull(body.agentInstructions)]

\* the updates object the handler builds from the body
UpdatesOf(body) ==
  [NoUpdates EXCEPT
     !.has = body.has \cap {"nickname", "brand", "model", "agentInstructions"},
     !.nickname = NameOrNull(body.nickname),
     !.brand = NameOrNull(body.brand),
     !.model = NameOrNull(body.model),
     !.agentInstructions = TextOrNull(body.agentInstructions)]

\* the handler has answered
Answer(status) == [NoUpd EXCEPT !.resp = status]

\* the request arrives; requireUserId
UpdStart(id, caller, body) ==
  /\ upd.pc = "idle"
  /\ updCount < MaxUpdates
  /\ updCount' = updCount + 1
  /\ upd' = IF caller = "none"
            THEN Answer(401)
            ELSE [pc |-> "get", userId |-> caller, id |-> id,
                  updates |-> UpdatesOf(body), resp |-> 0]
  /\ UNCHANGED <<tailor, tailorCount, adapt, adaptCount, delCount, del, chunker, cap,
                 pdf, rows, bucket, vecIndex, req, job, effects, fetched>>

\* getKitchenAppliance, the owner check, the body
UpdGet(ok) ==
  /\ upd.pc = "get"
  /\ upd' = IF ~ok THEN Answer(500)
            ELSE IF ~rows[upd.id].present \/ rows[upd.id].userId # upd.userId
                 THEN Answer(404)
            ELSE IF upd.updates.has = {}
                 THEN Answer(200)
            ELSE [upd EXCEPT !.pc = "write"]
  /\ UNCHANGED <<tailor, tailorCount, adapt, adaptCount, delCount, del, chunker, cap,
                 pdf, rows, bucket, vecIndex, req, job, updCount, effects, fetched>>

\* updateKitchenApplianceFields: the UPDATE
UpdWrite(ok) ==
  /\ upd.pc = "write"
  /\ IF ok
     THEN /\ rows' = [rows EXCEPT ![upd.id] = ApplyUpdates(@, upd.updates)]
          /\ upd' = [upd EXCEPT !.pc = "read"]
     ELSE /\ rows' = rows
          /\ upd' = Answer(500)
  /\ UNCHANGED <<tailor, tailorCount, adapt, adaptCount, delCount, del, chunker, cap,
                 pdf, bucket, vecIndex, req, job, updCount, effects, fetched>>

\* updateKitchenApplianceFields: the read back, and the answer
UpdRead(ok) ==
  /\ upd.pc = "read"
  /\ upd' = Answer(IF ok THEN 200 ELSE 500)
  /\ UNCHANGED <<tailor, tailorCount, adapt, adaptCount, delCount, del, chunker, cap,
                 pdf, rows, bucket, vecIndex, req, job, updCount, effects, fetched>>

(***************************************************************************)
(* delete-appliance: app.delete('/api/kitchen/appliances/:id'). Vector ids *)
(* are <<appliance id, chunk index>>; the legacy id 'appliance:' + id,     *)
(* which has no chunk part, is <<appliance id, -1>>. A throw of an object  *)
(* or vector deletion is caught and logged; a throw of a store call is     *)
(* answered 500.                                                           *)
(***************************************************************************)
LegacyId(id) == <<id, -1>>

\* variant: the legacy id whatever the count
DeleteVectorIdsLegacy(id, chunkCount) == {LegacyId(id)}

\* lines 1471-1479: the ids handed to APPLIANCE_VEC.delete
DeleteVectorIds(id, chunkCount) ==
  IF chunkCount > 0 THEN {<<id, index>> : index \in 0..(chunkCount - 1)}
  ELSE {LegacyId(id)}

\* `Number(appliance.extractedSpecs?.vectorChunkCount ?? 0)`
ChunkCountOf(appliance) ==
  IF appliance.extractedSpecs.present THEN appliance.extractedSpecs.vectorChunkCount
  ELSE 0

\* the handler's position once the manual object has been dealt with
AfterManualDelete(d) ==
  IF d.appliance.ocrTextR2Key # NullKey THEN [d EXCEPT !.pc = "delText"]
  ELSE [d EXCEPT !.pc = "delVec"]

\* the request arrives; requireUserId
DelStart(id, caller) ==
  /\ del.pc \in {"idle", "responded"}
  /\ delCount < MaxDeletes
  /\ delCount' = delCount + 1
  /\ del' = IF caller = "none"
            THEN [NoDel EXCEPT !.pc = "responded", !.id = id, !.resp = 401]
            ELSE [NoDel EXCEPT !.pc = "get", !.userId = caller, !.id = id]
  /\ UNCHANGED <<tailor, tailorCount, adapt, adaptCount, chunker, cap, pdf, rows,
                 bucket, vecIndex, req, job, upd, updCount, effects, fetched>>

\* getKitchenAppliance and the owner check
DelGet(ok) ==
  /\ del.pc = "get"
  /\ del' = IF ~ok THEN [del EXCEPT !.pc = "responded", !.resp = 500]
            ELSE IF ~rows[del.id].present \/ rows[del.id].userId # del.userId
                 THEN [del EXCEPT !.pc = "responded", !.resp = 404]
            ELSE IF rows[del.id].manualR2Key # NullKey
                 THEN [del EXCEPT !.appliance = rows[del.id], !.pc = "delManual"]
            ELSE AfterManualDelete([del EXCEPT !.appliance = rows[del.id]])
  /\ UNCHANGED <<tailor, tailorCount, adapt, adaptCount, delCount, chunker, cap, pdf,
                 rows, bucket, vecIndex, req, job, upd, updCount, effects, fetched>>

\* APPLIANCE_BUCKET.delete(appliance.manualR2Key)
DelManual(ok) ==
  /\ del.pc = "delManual"
  /\ bucket' = IF ok THEN [bucket EXCEPT ![del.appliance.manualR2Key] = Absent]
               ELSE bucket
  /\ del' = AfterManualDelete([del EXCEPT !.keys = @ \cup {del.appliance.manualR2Key}])
  /\ UNCHANGED <<tailor, tailorCount, adapt, adaptCount, delCount, chunker, cap, pdf,
                 rows, vecIndex, req, job, upd, updCount, effects, fetched>>

\* APPLIANCE_BUCKET.delete(appliance.ocrTextR2Key)
DelText(ok) ==
  /\ del.pc = "delText"
  /\ bucket' = IF ok THEN [bucket EXCEPT ![del.appliance.ocrTextR2Key] = Absent]
               ELSE bucket
  /\ del' = [del EXCEPT !.keys = @ \cup {del.appliance.ocrTextR2Key}, !.pc = "delVec"]
  /\ UNCHANGED <<tailor, tailorCount, adapt, adaptCount, delCount, chunker, cap, pdf,
                 rows, vecIndex, req, job, upd, updCount, effects, fetched>>

\* APPLIANCE_VEC.delete(vectorIds)
DelVec(ok) ==
  /\ del.pc = "delVec"
  /\ LET vectorIds == DeleteVectorIds(del.id, ChunkCountOf(del.appliance)) IN
     /\ vecIndex' = IF ok THEN vecIndex \ vectorIds ELSE vecIndex
     /\ del' = [del EXCEPT !.vecIds = @ \cup vectorIds, !.pc = "delLegacy"]
  /\ UNCHANGED <<tailor, tailorCount, adapt, adaptCount, delCount, chunker, cap, pdf,
                 rows, bucket, req, job, upd, updCount, effects, fetched>>

\* VEC.delete(['appliance:' + id]) on the recipe index
DelLegacy(ok) ==
  /\ del.pc = "delLegacy"
  /\ del' = [del EXCEPT !.legacyIds = @ \cup {LegacyId(del.id)}, !.pc = "delCheck"]
  /\ UNCHANGED <<tailor, tailorCount, adapt, adaptCount, delCount, chunker, cap, pdf,
                 rows, bucket, vecIndex, req, job, upd, updCount, effects, fetched>>

\* deleteKitchenAppliance: getKitchenAppliance and the owner check
DelCheck(ok) ==
  /\ del.pc = "delCheck"
  /\ del' = IF ~ok THEN [del EXCEPT !.pc = "responded", !.resp = 500]
            ELSE IF ~rows[del.id].present \/ rows[del.id].userId # del.userId
                 THEN [del EXCEPT !.pc = "responded", !.resp = 200]
            ELSE [del EXCEPT !.pc = "delRow"]
  /\ UNCHANGED <<tailor, tailorCount, adapt, adaptCount, delCount, chunker, cap, pdf,
                 rows, bucket, vecIndex, req, job, upd, updCount, effects, fetched>>

\* deleteKitchenAppliance: DELETE FROM kitchen_appliances; the answer
DelRow(ok) ==
  /\ del.pc = "delRow"
  /\ rows' = IF ok /\ rows[del.id].userId = del.userId
             THEN [rows EXCEPT ![del.id] = NoRow]
             ELSE rows
  /\ del' = [del EXCEPT !.pc = "responded", !.resp = IF ok THEN 200 ELSE 500]
  /\ UNCHANGED <<tailor, tailorCount, adapt, adaptCount, delCount, chunker, cap, pdf,
                 bucket, vecIndex, req, job, upd, updCount, effects, fetched>>

(***************************************************************************)
(* adapt-recipe: app.post('/api/recipes/:id/adapt'), with                  *)
(* summarizeCookingActions and generateApplianceAdaptation (src/src/ai.ts).*)
(* The handler has no try block of its own except around the object-store  *)
(* read, and the application registers no error handler: a throw that      *)
(* leaves the handler is answered 500 by the framework.                    *)
(*                                                                         *)
(* A model answer is a sequence of tokens: white space, the code fence,    *)
(* the word "json", prose, and JSON documents, one token each.             *)
(***************************************************************************)
\* three backticks
Fence == "fence"
Prose == "prose"
\* {"tailored_steps": [...], "summary_of_changes": "..."}, the same with the keys
\* tailoredSteps and summaryOfChanges, {} and null
JsonDocs == {"ObjSnake", "ObjCamel", "ObjEmpty", "null"}

ModelSteps == <<"t1", "t2", "t3">>
ModelSummary == "changes"
UnableSummary == "Unable to adapt recipe with the provided manual excerpts."

\* the shapes in which the generation model wraps a document or prose
GenShapes(d) ==
  { <<d>>,
    <<" ", d, "NL">>,
    <<Fence, "json", "NL", d, "NL", Fence>>,
    <<Fence, "NL", d, "NL", Fence>>,
    <<"NL", Fence, "json", "NL", d, "NL", Fence>>,
    <<Fence, "json", "NL", d, "NL", Fence, "NL">>,
    <<Fence, "json", "NL", d>>,
    <<Prose, d>>,
    <<d, Prose>> }

GenRaws == UNION {GenShapes(d) : d \in JsonDocs \cup {Prose}} \cup {<< >>}

\* what env.AI.run gives generateApplianceAdaptation: it throws, answers without
\* any text field, or answers a text
GenerationAnswers ==
  {[kind |-> "throw", raw |-> << >>], [kind |-> "noText", raw |-> << >>]}
    \cup {[kind |-> "text", raw |-> r] : r \in GenRaws}

\* `raw.replace(/^```(?:json)?/i, '')`
DropStartFence(s) ==
  IF Len(s) >= 1 /\ s[1] = Fence
  THEN IF Len(s) >= 2 /\ s[2] = "json" THEN SubSeq(s, 3, Len(s))
       ELSE SubSeq(s, 2, Len(s))
  ELSE s

\* `.replace(/```$/i, '')`
DropEndFence(s) ==
  IF Len(s) >= 1 /\ s[Len(s)] = Fence THEN SubSeq(s, 1, Len(s) - 1) ELSE s

\* lines 490-492: the fence is looked for in the trimmed text and removed from the
\* untrimmed one
StripFence(raw) ==
  IF Len(Trim(raw)) >= 1 /\ Trim(raw)[1] = Fence
  THEN Trim(DropEndFence(DropStartFence(raw)))
  ELSE raw

\* JSON.parse: one document between optional white space, or a throw
JsonParse(text) ==
  IF Len(Trim(text)) = 1 /\ Trim(text)[1] \in JsonDocs
  THEN [ok |-> TRUE, doc |-> Trim(text)[1]]
  ELSE [ok |-> FALSE, doc |-> "none"]

\* lines 496-509: the fields read from the parsed document
ParsedAdaptation(doc) ==
  IF doc \in {"ObjSnake", "ObjCamel"}
  THEN [tailoredSteps |-> ModelSteps, summaryOfChanges |-> ModelSummary]
  ELSE [tailoredSteps |-> << >>, summaryOfChanges |-> ""]

\* variant: the degraded answer carries nothing
DegradedAdaptationEmpty(recipeSteps) ==
  [tailoredSteps |-> << >>, summaryOfChanges |-> ""]

\* lines 514-517: the answer when the text cannot be parsed
DegradedAdaptation(recipeSteps) ==
  [tailoredSteps |-> recipeSteps, summaryOfChanges |-> UnableSummary]

\* generateApplianceAdaptation after its model call returned `raw`
AdaptationOf(raw, recipeSteps) ==
  IF JsonParse(StripFence(raw)).ok
  THEN ParsedAdaptation(JsonParse(StripFence(raw)).doc)
  ELSE DegradedAdaptation(recipeSteps)

\* getRecipeById: a throw, null, or the recipe with its step instructions
NoRecipe == [found |-> FALSE, steps |-> << >>]
RecipeAnswers ==
  {[kind |-> "throw", recipe |-> NoRecipe], [kind |-> "ok", recipe |-> NoRecipe]}
    \cup {[kind |-> "ok", recipe |-> [found |-> TRUE, steps |-> s]]
            : s \in {<< >>, <<"s1", "s2">>}}

\* summarizeCookingActions' model call: a throw, a JSON array of actions, of blank
\* strings, the empty array, or anything else
SummaryAnswers == {"throw", "actions", "blankActions", "emptyArray", "unparsable"}

\* lines 446-454 and 2180: whether the query text is blank, given non-empty steps
\* of non-blank instructions
QueryBlank(answer) == answer = "blankActions"

\* the request body: unparsable, without a usable appliance_id, or naming an id
AdaptBodies == {"invalid", "blank"} \cup ApplianceIds

\* the vector ids APPLIANCE_VEC holds for the appliance
VectorsOf(id) == {v \in vecIndex : v[1] = id}

Min(a, b) == IF a < b THEN a ELSE b

\* the vectors a query with this filter can match: metadata appliance_id and
\* user_id are the job's applianceId and userId
VectorsMatching(q) ==
  {v \in vecIndex : v[1] = q.applianceId /\ job[v[1]].userId = q.userId}

\* variant: the manual text is read whenever the record has a text key
AfterMatchesAlwaysRead(a) ==
  IF a.appliance.ocrTextR2Key # NullKey
  THEN [a EXCEPT !.pc = "bucketGet"]
  ELSE [a EXCEPT !.pc = "generate"]

\* lines 2194-2212: after the matches, the manual text is read only when no
\* excerpt came back and the record has a text key
AfterMatches(a) ==
  IF a.excerpts = 0 /\ a.appliance.ocrTextR2Key # NullKey
  THEN [a EXCEPT !.pc = "bucketGet"]
  ELSE [a EXCEPT !.pc = "generate"]

\* lines 2180-2192: embedText answers [] without a call on a blank query text
AfterActions(a, blank) ==
  IF blank THEN AfterMatches(a) ELSE [a EXCEPT !.pc = "embed"]

\* the framework's answer to a throw that left the handler
Uncaught(a, stage) == [a EXCEPT !.pc = "responded", !.resp = 500, !.threwAt = stage]

\* the request arrives: requireUserId, parseJsonBody, appliance_id
AdaptStart(caller, body) ==
  /\ adapt.pc \in {"idle", "responded"}
  /\ adaptCount < MaxAdapts
  /\ adaptCount' = adaptCount + 1
  /\ adapt' = IF caller = "none" THEN [NoAdapt EXCEPT !.pc = "responded", !.resp = 401]
              ELSE IF body \notin ApplianceIds
                   THEN [NoAdapt EXCEPT !.pc = "responded", !.userId = caller,
                                        !.resp = 400]
              ELSE [NoAdapt EXCEPT !.pc = "getRecipe", !.userId = caller,
                                   !.applianceId = body]
  /\ UNCHANGED <<tailor, tailorCount, rows, bucket, vecIndex, req, job, upd, updCount,
                 effects, fetched, pdf, cap, chunker, del, delCount>>

\* getRecipeById
AdaptGetRecipe(answer) ==
  /\ adapt.pc = "getRecipe"
  /\ adapt' = IF answer.kind = "throw" THEN Uncaught(adapt, "getRecipe")
              ELSE IF ~answer.recipe.found
                   THEN [adapt EXCEPT !.pc = "responded", !.resp = 404]
              ELSE [adapt EXCEPT !.pc = "getAppliance", !.recipeFound = TRUE,
                                 !.originalSteps = answer.recipe.steps]
  /\ UNCHANGED <<tailor, tailorCount, adaptCount, rows, bucket, vecIndex, req, job, upd,
                 updCount, effects, fetched, pdf, cap, chunker, del, delCount>>

\* getKitchenAppliance, the owner and status tests; summarizeCookingActions
\* answers [] without a call when the recipe has no step
AdaptGetAppliance(ok) ==
  /\ adapt.pc = "getAppliance"
  /\ adapt' = IF ~ok THEN Uncaught(adapt, "getAppliance")
              ELSE IF ~rows[adapt.applianceId].present
                      \/ rows[adapt.applianceId].userId # adapt.userId
                   THEN [adapt EXCEPT !.pc = "responded", !.resp = 404]
              ELSE IF rows[adapt.applianceId].processingStatus # "COMPLETED"
                   THEN [adapt EXCEPT !.pc = "responded", !.resp = 409,
                                      !.appliance = rows[adapt.applianceId]]
              ELSE IF adapt.originalSteps = << >>
                   THEN AfterActions([adapt EXCEPT !.appliance = rows[adapt.applianceId]],
                                     TRUE)
              ELSE [adapt EXCEPT !.appliance = rows[adapt.applianceId],
                                 !.pc = "summarize"]
  /\ UNCHANGED <<tailor, tailorCount, adaptCount, rows, bucket, vecIndex, req, job, upd,
                 updCount, effects, fetched, pdf, cap, chunker, del, delCount>>

\* summarizeCookingActions: env.AI.run and the parse
AdaptSummarize(answer) ==
  /\ adapt.pc = "summarize"
  /\ adapt' = IF answer = "throw" THEN Uncaught(adapt, "summarize")
              ELSE AfterActions([adapt EXCEPT !.calls = @ \cup {"summarize"}],
                                QueryBlank(answer))
  /\ UNCHANGED <<tailor, tailorCount, adaptCount, rows, bucket, vecIndex, req, job, upd,
                 updCount, effects, fetched, pdf, cap, chunker, del, delCount>>

\* embedText: env.AI.run; a vector, no vector, or a throw
AdaptEmbed(outcome) ==
  /\ adapt.pc = "embed"
  /\ adapt' = IF outcome = "throw" THEN Uncaught(adapt, "embed")
              ELSE IF outcome = "empty"
                   THEN AfterMatches([adapt EXCEPT !.calls = @ \cup {"embed"}])
              ELSE [adapt EXCEPT !.calls = @ \cup {"embed"}, !.pc = "query"]
  /\ UNCHANGED <<tailor, tailorCount, adaptCount, rows, bucket, vecIndex, req, job, upd,
                 updCount, effects, fetched, pdf, cap, chunker, del, delCount>>

\* APPLIANCE_VEC.query with topK 5: a throw, or `count` of the appliance's vectors,
\* whose chunk_text is the chunk the job stored
AdaptQuery(ok, count) ==
  /\ adapt.pc = "query"
  /\ LET query == [applianceId |-> adapt.applianceId, userId |-> adapt.userId,
                   topK |-> AdaptTopK] IN
     /\ count <= Min(query.topK, Cardinality(VectorsMatching(query)))
     /\ adapt' = IF ~ok THEN Uncaught([adapt EXCEPT !.query = query], "query")
                 ELSE AfterMatches([adapt EXCEPT !.calls = @ \cup {"query"},
                                                 !.query = query,
                                                 !.matched = count,
                                                 !.excerpts = Min(count, AdaptMaxExcerpts)])
  /\ UNCHANGED <<tailor, tailorCount, adaptCount, rows, bucket, vecIndex, req, job, upd,
                 updCount, effects, fetched, pdf, cap, chunker, del, delCount>>

\* APPLIANCE_BUCKET.get(appliance.ocrTextR2Key) and object.text(), inside the try:
\* the first chunks of the manual text, or nothing
AdaptBucketGet(ok) ==
  /\ adapt.pc = "bucketGet"
  /\ LET manualText == bucket[adapt.appliance.ocrTextR2Key] IN
     adapt' = IF ~ok \/ manualText = Absent \/ manualText = EmptyText
              THEN [adapt EXCEPT !.calls = @ \cup {"bucketGet"}, !.pc = "generate",
                                 !.readFailed = ~ok]
              ELSE [adapt EXCEPT
                      !.calls = @ \cup {"bucketGet"}, !.pc = "generate",
                      !.excerpts = Min(AdaptMaxExcerpts,
                                       Len(chunkManualText(manualText, AdaptChunkSize,
                                                           AdaptOverlap)))]
  /\ UNCHANGED <<tailor, tailorCount, adaptCount, rows, bucket, vecIndex, req, job, upd,
                 updCount, effects, fetched, pdf, cap, chunker, del, delCount>>

\* generateApplianceAdaptation: env.AI.run, the parse, and the answer
AdaptGenerate(answer) ==
  /\ adapt.pc = "generate"
  /\ adapt' = IF answer.kind = "throw" THEN Uncaught(adapt, "generate")
              ELSE LET raw == IF answer.kind = "text" THEN answer.raw
                              ELSE <<"ObjEmpty">>
                       adaptation == AdaptationOf(raw, adapt.originalSteps) IN
                   [adapt EXCEPT !.pc = "responded", !.resp = 200,
                                 !.calls = @ \cup {"generate"},
                                 !.genText = answer.kind = "text",
                                 !.raw = raw,
                                 !.tailoredSteps = adaptation.tailoredSteps,
                                 !.summaryOfChanges = adaptation.summaryOfChanges]
  /\ UNCHANGED <<tailor, tailorCount, adaptCount, rows, bucket, vecIndex, req, job, upd,
                 updCount, effects, fetched, pdf, cap, chunker, del, delCount>>

(***************************************************************************)
(* tailor-recipe: app.post('/api/recipes/:id/tailor'), with                *)
(* tailorRecipeInstructions (src/src/ai.ts). Only the generation call is   *)
(* inside the handler's try block.                                         *)
(***************************************************************************)
\* what the generation model answers: a throw, a JSON array of steps, an object
\* with a steps array, or lines of prose
TailorAnswers == {"throw", "array", "stepsObject", "prose"}
ProseLines == <<"line1", "line2">>

\* tailorRecipeInstructions, lines 714-730: the parsed steps, else the lines of
\* the answer
TailoredSteps(answer) == IF answer = "prose" THEN ProseLines ELSE ModelSteps

\* the request arrives: requireUserId, parseJsonBody, appliance_id
TailorStart(caller, body) ==
  /\ tailor.pc \in {"idle", "responded"}
  /\ tailorCount < MaxTailors
  /\ tailorCount' = tailorCount + 1
  /\ tailor' = IF caller = "none"
               THEN [NoTailor EXCEPT !.pc = "responded", !.resp = 401]
               ELSE IF body \notin ApplianceIds
                    THEN [NoTailor EXCEPT !.pc = "responded", !.userId = caller,
                                          !.resp = 400]
               ELSE [NoTailor EXCEPT !.pc = "getRecipe", !.userId = caller,
                                     !.applianceId = body]
  /\ UNCHANGED <<rows, bucket, vecIndex, req, job, upd, updCount, effects, fetched, pdf,
                 cap, chunker, del, delCount, adaptCount, adapt>>

\* getRecipeById
TailorGetRecipe(answer) ==
  /\ tailor.pc = "getRecipe"
  /\ tailor' = IF answer.kind = "throw"
               THEN [tailor EXCEPT !.pc = "responded", !.resp = 500, !.threw = TRUE]
               ELSE IF ~answer.recipe.found
                    THEN [tailor EXCEPT !.pc = "responded", !.resp = 404]
               ELSE [tailor EXCEPT !.pc = "getAppliance", !.recipeFound = TRUE,
                                   !.originalSteps = answer.recipe.steps]
  /\ UNCHANGED <<tailorCount, rows, bucket, vecIndex, req, job, upd, updCount, effects,
                 fetched, pdf, cap, chunker, del, delCount, adaptCount, adapt>>

\* getKitchenAppliance, the owner test and the text-key test
TailorGetAppliance(ok) ==
  /\ tailor.pc = "getAppliance"
  /\ tailor' = IF ~ok
               THEN [tailor EXCEPT !.pc = "responded", !.resp = 500, !.threw = TRUE]
               ELSE IF ~rows[tailor.applianceId].present
                       \/ rows[tailor.applianceId].userId # tailor.userId
                    THEN [tailor EXCEPT !.pc = "responded", !.resp = 404]
               ELSE IF rows[tailor.applianceId].ocrTextR2Key = NullKey
                    THEN [tailor EXCEPT !.pc = "responded", !.resp = 409]
               ELSE [tailor EXCEPT !.pc = "bucketGet",
                                   !.appliance = rows[tailor.applianceId]]
  /\ UNCHANGED <<tailorCount, rows, bucket, vecIndex, req, job, upd, updCount, effects,
                 fetched, pdf, cap, chunker, del, delCount, adaptCount, adapt>>

\* APPLIANCE_BUCKET.get(appliance.ocrTextR2Key) and manualObject.text()
TailorBucketGet(ok) ==
  /\ tailor.pc = "bucketGet"
  /\ LET manualText == bucket[tailor.appliance.ocrTextR2Key] IN
     tailor' = IF ~ok
               THEN [tailor EXCEPT !.pc = "responded", !.resp = 500, !.threw = TRUE]
               ELSE IF manualText = Absent \/ manualText = EmptyText
                    THEN [tailor EXCEPT !.pc = "responded", !.resp = 409]
               ELSE [tailor EXCEPT !.pc = "generate"]
  /\ UNCHANGED <<tailorCount, rows, bucket, vecIndex, req, job, upd, updCount, effects,
                 fetched, pdf, cap, chunker, del, delCount, adaptCount, adapt>>

\* tailorRecipeInstructions inside the try block, and the answer
TailorGenerate(answer) ==
  /\ tailor.pc = "generate"
  /\ tailor' = IF answer = "throw"
               THEN [tailor EXCEPT !.pc = "responded", !.resp = 500, !.threw = TRUE]
               ELSE [tailor EXCEPT !.pc = "responded", !.resp = 200,
                                   !.tailoredSteps = TailoredSteps(answer)]
  /\ UNCHANGED <<tailorCount, rows, bucket, vecIndex, req, job, upd, updCount, effects,
                 fetched, pdf, cap, chunker, del, delCount, adaptCount, adapt>>

(***************************************************************************)
(* The specification of the pipeline.                                      *)
(***************************************************************************)
Next ==
  \/ \E id \in ApplianceIds, form \in Forms : CreateRequest(id, form)
  \/ \E id \in ApplianceIds, ok \in BOOLEAN : CreateEnsureUser(id, ok)
  \/ \E id \in ApplianceIds, ok \in BOOLEAN : CreateInsert(id, ok)
  \/ \E id \in ApplianceIds, ok \in BOOLEAN : CreateReadBack(id, ok)
  \/ \E id \in ApplianceIds, ok \in BOOLEAN : JobProcUpdate(id, ok)
  \/ \E id \in ApplianceIds, ok \in BOOLEAN : JobProcRead(id, ok)
  \/ \E id \in ApplianceIds, outcome \in FetchOutcomes : JobFetch(id, outcome)
  \/ \E id \in ApplianceIds, ok \in BOOLEAN : JobPutManual(id, ok)
  \/ \E id \in ApplianceIds, t \in LocalAnswers : JobLocalExtract(id, t)
  \/ \E id \in ApplianceIds, t \in OcrAnswers \cup {ThrownText} : JobOcr(id, t)
  \/ \E id \in ApplianceIds, ok \in BOOLEAN : JobPutText(id, ok)
  \/ \E id \in ApplianceIds, a \in SpecAnswers \cup {ThrownSpec} : JobSpecCall(id, a)
  \/ \E id \in ApplianceIds, ok \in BOOLEAN : JobPrefs(id, ok)
  \/ \E id \in ApplianceIds, t \in InstructionAnswers \cup {ThrownText} :
        JobInstrCall(id, t)
  \/ \E id \in ApplianceIds, outcome \in EmbedOutcomes : JobEmbed(id, outcome)
  \/ \E id \in ApplianceIds, ok \in BOOLEAN : JobUpsert(id, ok)
  \/ \E id \in ApplianceIds, ok \in BOOLEAN : JobFinalUpdate(id, ok)
  \/ \E id \in ApplianceIds, ok \in BOOLEAN : JobFinalRead(id, ok)
  \/ \E id \in ApplianceIds, ok \in BOOLEAN : JobFailUpdate(id, ok)
  \/ \E id \in ApplianceIds, ok \in BOOLEAN : JobFailRead(id, ok)
  \/ \E id \in ApplianceIds, r \in UpdateRequests : UpdStart(id, r.caller, r.body)
  \/ \E ok \in BOOLEAN : UpdGet(ok)
  \/ \E ok \in BOOLEAN : UpdWrite(ok)
  \/ \E ok \in BOOLEAN : UpdRead(ok)

Spec == Init /\ [][Next]_vars

(***************************************************************************)
(* Ingestion of long manuals sent as text: create-appliance and the text   *)
(* path of runApplianceIngestion, on texts of several chunks.              *)
(***************************************************************************)
\* n copies of the paragraph p with a blank line between them
RECURSIVE JoinParagraphs(_, _)
JoinParagraphs(p, n) ==
  IF n <= 1 THEN p ELSE JoinParagraphs(p, n - 1) \o ParaSep \o p

LongParagraphCounts == {2, 3, 6}
LongTexts == {JoinParagraphs(Rep(LongParaLen, "x"), n) : n \in LongParagraphCounts}
LongForms == [multipart : {TRUE}, parsable : {TRUE}, manual : {"none"}, url : {NoUrl},
              text : [kind : {"string"}, content : LongTexts], nickname : Nicknames]

\* what the embedding model answers for the chunk at `index`
LongEmbedOutcomes(index) ==
  IF index < EmptyEmbedBelow THEN EmbedOutcomes ELSE EmbedOutcomes \ {"empty"}

NextIngest ==
  \/ \E id \in ApplianceIds, form \in LongForms : CreateRequest(id, form)
  \/ \E id \in ApplianceIds, ok \in BOOLEAN : CreateEnsureUser(id, ok)
  \/ \E id \in ApplianceIds, ok \in BOOLEAN : CreateInsert(id, ok)
  \/ \E id \in ApplianceIds, ok \in BOOLEAN : CreateReadBack(id, ok)
  \/ \E id \in ApplianceIds, ok \in BOOLEAN : JobProcUpdate(id, ok)
  \/ \E id \in ApplianceIds, ok \in BOOLEAN : JobProcRead(id, ok)
  \/ \E id \in ApplianceIds, ok \in BOOLEAN : JobPutText(id, ok)
  \/ \E id \in ApplianceIds, a \in SpecAnswers \cup {ThrownSpec} : JobSpecCall(id, a)
  \/ \E id \in ApplianceIds, ok \in BOOLEAN : JobPrefs(id, ok)
  \/ \E id \in ApplianceIds, t \in InstructionAnswers \cup {ThrownText} :
        JobInstrCall(id, t)
  \/ \E id \in ApplianceIds :
        \E outcome \in LongEmbedOutcomes(job[id].index) : JobEmbed(id, outcome)
  \/ \E id \in ApplianceIds, ok \in BOOLEAN : JobUpsert(id, ok)
  \/ \E id \in ApplianceIds, ok \in BOOLEAN : JobFinalUpdate(id, ok)
  \/ \E id \in ApplianceIds, ok \in BOOLEAN : JobFinalRead(id, ok)
  \/ \E id \in ApplianceIds, ok \in BOOLEAN : JobFailUpdate(id, ok)
  \/ \E id \in ApplianceIds, ok \in BOOLEAN : JobFailRead(id, ok)

SpecIngest == Init /\ [][NextIngest]_vars

\* the same with delete-appliance requests
NextDelete ==
  \/ NextIngest
  \/ \E id \in ApplianceIds, caller \in Callers : DelStart(id, caller)
  \/ \E ok \in BOOLEAN : DelGet(ok)
  \/ \E ok \in BOOLEAN : DelManual(ok)
  \/ \E ok \in BOOLEAN : DelText(ok)
  \/ \E ok \in BOOLEAN : DelVec(ok)
  \/ \E ok \in BOOLEAN : DelLegacy(ok)
  \/ \E ok \in BOOLEAN : DelCheck(ok)
  \/ \E ok \in BOOLEAN : DelRow(ok)

SpecDelete == Init /\ [][NextDelete]_vars

\* ingestion with adapt-recipe requests
NextAdapt ==
  \/ NextIngest
  \/ \E caller \in Callers, body \in AdaptBodies : AdaptStart(caller, body)
  \/ \E answer \in RecipeAnswers : AdaptGetRecipe(answer)
  \/ \E ok \in BOOLEAN : AdaptGetAppliance(ok)
  \/ \E answer \in SummaryAnswers : AdaptSummarize(answer)
  \/ \E outcome \in {"throw", "empty", "vector"} : AdaptEmbed(outcome)
  \/ \E ok \in BOOLEAN, count \in 0..AdaptTopK : AdaptQuery(ok, count)
  \/ \E ok \in BOOLEAN : AdaptBucketGet(ok)
  \/ \E answer \in GenerationAnswers : AdaptGenerate(answer)

SpecAdapt == Init /\ [][NextAdapt]_vars

(***************************************************************************)
(* The owner checks: ingestion of one short text, with update-appliance    *)
(* and tailor-recipe requests of every caller and delete-appliance and     *)
(* adapt-recipe requests of a caller who is not the owner.                 *)
(***************************************************************************)
OwnerForms == [multipart : {TRUE}, parsable : {TRUE}, manual : {"none"}, url : {NoUrl},
               text : [kind : {"string"}, content : {<<"a", " ", "b">>}],
               nickname : Nicknames]

\* the requests issued so far to the four handlers
RequestsIssued == updCount + delCount + adaptCount + tailorCount

NextOwner ==
  \/ \E id \in ApplianceIds, form \in OwnerForms : CreateRequest(id, form)
  \/ \E id \in ApplianceIds, ok \in BOOLEAN : CreateEnsureUser(id, ok)
  \/ \E id \in ApplianceIds, ok \in BOOLEAN : CreateInsert(id, ok)
  \/ \E id \in ApplianceIds, ok \in BOOLEAN : CreateReadBack(id, ok)
  \/ \E id \in ApplianceIds, ok \in BOOLEAN : JobProcUpdate(id, ok)
  \/ \E id \in ApplianceIds, ok \in BOOLEAN : JobProcRead(id, ok)
  \/ \E id \in ApplianceIds, ok \in BOOLEAN : JobPutText(id, ok)
  \/ \E id \in ApplianceIds, a \in SpecAnswers \cup {ThrownSpec} : JobSpecCall(id, a)
  \/ \E id \in ApplianceIds, ok \in BOOLEAN : JobPrefs(id, ok)
  \/ \E id \in ApplianceIds, t \in InstructionAnswers \cup {ThrownText} :
        JobInstrCall(id, t)
  \/ \E id \in ApplianceIds, outcome \in EmbedOutcomes : JobEmbed(id, outcome)
  \/ \E id \in ApplianceIds, ok \in BOOLEAN : JobUpsert(id, ok)
  \/ \E id \in ApplianceIds, ok \in BOOLEAN : JobFinalUpdate(id, ok)
  \/ \E id \in ApplianceIds, ok \in BOOLEAN : JobFinalRead(id, ok)
  \/ \E id \in ApplianceIds, ok \in BOOLEAN : JobFailUpdate(id, ok)
  \/ \E id \in ApplianceIds, ok \in BOOLEAN : JobFailRead(id, ok)
  \/ /\ RequestsIssued < MaxRequests
     /\ \E id \in ApplianceIds, r \in UpdateRequests : UpdStart(id, r.caller, r.body)
  \/ \E ok \in BOOLEAN : UpdGet(ok)
  \/ \E ok \in BOOLEAN : UpdWrite(ok)
  \/ \E ok \in BOOLEAN : UpdRead(ok)
  \/ /\ RequestsIssued < MaxRequests
     /\ \E id \in ApplianceIds : DelStart(id, "other")
  \/ \E ok \in BOOLEAN : DelGet(ok)
  \/ /\ RequestsIssued < MaxRequests
     /\ \E body \in AdaptBodies : AdaptStart("other", body)
  \/ \E answer \in RecipeAnswers : AdaptGetRecipe(answer)
  \/ \E ok \in BOOLEAN : AdaptGetAppliance(ok)
  \/ /\ RequestsIssued < MaxRequests
     /\ \E caller \in Callers, body \in AdaptBodies : TailorStart(caller, body)
  \/ \E answer \in RecipeAnswers : TailorGetRecipe(answer)
  \/ \E ok \in BOOLEAN : TailorGetAppliance(ok)
  \/ \E ok \in BOOLEAN : TailorBucketGet(ok)
  \/ \E answer \in TailorAnswers : TailorGenerate(answer)

SpecOwner == Init /\ [][NextOwner]_vars

(***************************************************************************)
(* Chunking and embedding of one manual of many chunks, lines 714-741 of   *)
(* runApplianceIngestion: the text is chunked as the job chunks it, and    *)
(* the state keeps the chunks' lengths and the loop's counters.            *)
(***************************************************************************)
CapParagraphCounts == {0, 1, 40, 41}

\* a manual of n long paragraphs; for n = 0 a blank text
CapTextOf(n) ==
  IF n = 0 THEN <<" ">> ELSE JoinParagraphs(Rep(LongParaLen, "x"), n)

InitCap ==
  /\ rows = [i \in ApplianceIds |-> NoRow]
  /\ bucket = [k \in BucketKeys |-> Absent]
  /\ vecIndex = {}
  /\ req = [i \in ApplianceIds |-> NoReq]
  /\ job = [i \in ApplianceIds |-> NoJob]
  /\ upd = NoUpd
  /\ updCount = 0
  /\ effects = [i \in ApplianceIds |-> {}]
  /\ fetched = {}
  /\ tailor = NoTailor
  /\ tailorCount = 0
  /\ adapt = NoAdapt
  /\ adaptCount = 0
  /\ delCount = 0
  /\ del = NoDel
  /\ chunker = NoChunker
  /\ pdf = NoPdf
  /\ cap \in [pc : {"chunk"}, paragraphs : CapParagraphCounts, produced : {0},
              chunkLens : {<< >>}, index : {0}, calls : {0}, vectors : {0},
              vectorChunkCount : {0}]

\* line 714: chunkManualText(manualText, 1200, 200).slice(0, 40)
CapChunk ==
  /\ cap.pc = "chunk"
  /\ LET text == CapTextOf(cap.paragraphs)
         chunks == IngestChunks(text)
     IN  cap' = [cap EXCEPT
                   !.pc = "embed",
                   !.produced =
                      Len(chunkManualText(text, IngestChunkSize, IngestOverlap)),
                   !.chunkLens = [i \in 1..Len(chunks) |-> Len(Trim(chunks[i]))]]
  /\ UNCHANGED <<tailor, tailorCount, adapt, adaptCount, delCount, del, chunker, pdf,
                 rows, bucket, vecIndex, req, job, upd, updCount, effects, fetched>>

\* lines 716-732: one turn of the loop; embedText answers [] for a blank chunk
\* without asking the model
CapEmbed(outcome) ==
  /\ cap.pc = "embed"
  /\ cap.index < Len(cap.chunkLens)
  /\ cap' = IF cap.chunkLens[cap.index + 1] = 0
            THEN [cap EXCEPT !.index = @ + 1]
            ELSE CASE outcome = "thrown" ->
                        [cap EXCEPT !.pc = "failed", !.calls = @ + 1]
                   [] outcome = "empty" ->
                        [cap EXCEPT !.index = @ + 1, !.calls = @ + 1]
                   [] OTHER ->
                        [cap EXCEPT !.index = @ + 1, !.calls = @ + 1,
                                    !.vectors = @ + 1]
  /\ UNCHANGED <<tailor, tailorCount, adapt, adaptCount, delCount, del, chunker, pdf,
                 rows, bucket, vecIndex, req, job, upd, updCount, effects, fetched>>

\* lines 738-741: specsForStorage.vectorChunkCount = vectors.length
CapCount ==
  /\ cap.pc = "embed"
  /\ cap.index >= Len(cap.chunkLens)
  /\ cap' = [cap EXCEPT !.pc = "counted", !.vectorChunkCount = cap.vectors]
  /\ UNCHANGED <<tailor, tailorCount, adapt, adaptCount, delCount, del, chunker, pdf,
                 rows, bucket, vecIndex, req, job, upd, updCount, effects, fetched>>

NextCap ==
  \/ CapChunk
  \/ \E outcome \in EmbedOutcomes : CapEmbed(outcome)
  \/ CapCount

SpecCap == InitCap /\ [][NextCap]_vars

(***************************************************************************)
(* chunkManualText on its own: short texts over two letters, the blank and *)
(* the newline, some with carriage returns, and small chunk sizes with a   *)
(* smaller positive overlap, as at the two call sites (1200/200, 800/100). *)
(***************************************************************************)
Chars == {"a", "b", " ", "NL"}
TextsUpTo(n) == UNION {[1..k -> Chars] : k \in 0..n}
LongerTexts == {<<"a", "CR", "NL", "CR", "NL", "b", "NL", "NL", "a", "b">>,
            <<"a", "CR", "CR", "NL", "b", "NL", "NL", "NL", "b">>,
            <<"a", " ", " ", " ", "b", "NL", "NL", "a">>}
ChunkerTexts == TextsUpTo(MaxTextLen) \cup LongerTexts
ChunkerSizes == {3, 4}
ChunkerOverlaps == {1, 2}

InitChunker ==
  /\ rows = [i \in ApplianceIds |-> NoRow]
  /\ bucket = [k \in BucketKeys |-> Absent]
  /\ vecIndex = {}
  /\ req = [i \in ApplianceIds |-> NoReq]
  /\ job = [i \in ApplianceIds |-> NoJob]
  /\ upd = NoUpd
  /\ updCount = 0
  /\ effects = [i \in ApplianceIds |-> {}]
  /\ fetched = {}
  /\ tailor = NoTailor
  /\ tailorCount = 0
  /\ adapt = NoAdapt
  /\ adaptCount = 0
  /\ delCount = 0
  /\ del = NoDel
  /\ pdf = NoPdf
  /\ cap = NoCap
  /\ chunker \in [pc : {"call"}, text : ChunkerTexts, chunkSize : ChunkerSizes,
                  overlap : ChunkerOverlaps, chunks : {<< >>}]

\* the call returns
ChunkerCall ==
  /\ chunker.pc = "call"
  /\ chunker' = [chunker EXCEPT
                   !.pc = "returned",
                   !.chunks = chunkManualText(chunker.text, chunker.chunkSize,
                                              chunker.overlap)]
  /\ UNCHANGED <<tailor, tailorCount, adapt, adaptCount, delCount, del, cap, pdf, rows,
                 bucket, vecIndex, req, job, upd, updCount, effects, fetched>>

NextChunker == ChunkerCall

SpecChunker == InitChunker /\ [][NextChunker]_vars

(***************************************************************************)
(* extractTextFromPdf on its own: the document determines what the local   *)
(* parser and the OCR model would answer; the function asks them in turn.  *)
(***************************************************************************)
PdfLocalLens == {1, 4, 100, 200, 201, 1000}
PdfOcrLens == {0, 1, 24, 25, 49, 50, 51, 100, 249, 250, 900}
PdfLocalInputs == {NullText} \cup {Rep(n, "l") : n \in PdfLocalLens}
PdfOcrInputs == {ThrownText} \cup {Rep(n, "o") : n \in PdfOcrLens}

InitPdf ==
  /\ rows = [i \in ApplianceIds |-> NoRow]
  /\ bucket = [k \in BucketKeys |-> Absent]
  /\ vecIndex = {}
  /\ req = [i \in ApplianceIds |-> NoReq]
  /\ job = [i \in ApplianceIds |-> NoJob]
  /\ upd = NoUpd
  /\ updCount = 0
  /\ effects = [i \in ApplianceIds |-> {}]
  /\ fetched = {}
  /\ tailor = NoTailor
  /\ tailorCount = 0
  /\ adapt = NoAdapt
  /\ adaptCount = 0
  /\ delCount = 0
  /\ del = NoDel
  /\ chunker = NoChunker
  /\ cap = NoCap
  /\ pdf \in [pc : {"local"}, local : PdfLocalInputs, ocr : PdfOcrInputs,
              result : {NullText}, ocrCalled : {FALSE}]

\* tryExtractWithPdfJs and the `length > 200` test
PdfLocal ==
  /\ pdf.pc = "local"
  /\ pdf' = IF AcceptLocal(pdf.local)
            THEN [pdf EXCEPT !.pc = "returned", !.result = pdf.local]
            ELSE [pdf EXCEPT !.pc = "ocr"]
  /\ UNCHANGED <<tailor, tailorCount, adapt, adaptCount, delCount, del, chunker, cap,
                 rows, bucket, vecIndex, req, job, upd, updCount, effects, fetched>>

\* extractTextFromPdfViaAi and the choice between the two texts
PdfOcr ==
  /\ pdf.pc = "ocr"
  /\ pdf' = IF pdf.ocr = ThrownText
            THEN [pdf EXCEPT !.pc = "thrown", !.ocrCalled = TRUE]
            ELSE [pdf EXCEPT !.pc = "returned", !.ocrCalled = TRUE,
                             !.result = ResolveWithOcr(pdf.local, pdf.ocr)]
  /\ UNCHANGED <<tailor, tailorCount, adapt, adaptCount, delCount, del, chunker, cap,
                 rows, bucket, vecIndex, req, job, upd, updCount, effects, fetched>>

NextPdf == PdfLocal \/ PdfOcr

SpecPdf == InitPdf /\ [][NextPdf]_vars

(***************************************************************************)
(* Claims.                                                                 *)
(***************************************************************************)
Status(id) == rows[id].processingStatus
Terminal == {"COMPLETED", "FAILED"}
StatusRank(st) ==
  CASE st = "QUEUED" -> 0 [] st = "PROCESSING" -> 1 [] st \in Terminal -> 2
    [] OTHER -> -1

\* C1: the processingStatus values of a record form a subsequence of QUEUED,
\* PROCESSING, (COMPLETED | FAILED): a record starts in QUEUED, its status never
\* moves backward, and a COMPLETED or FAILED status is never changed again.
C1_StatusMonotone ==
  [][\A id \in ApplianceIds :
       /\ (~rows[id].present /\ rows'[id].present) => Status(id)' = "QUEUED"
       /\ (rows[id].present /\ rows'[id].present /\ Status(id)' # Status(id))
            => /\ Status(id) \notin Terminal
               /\ StatusRank(Status(id)') > StatusRank(Status(id))]_vars

\* the form carries one of the upload fields the handler looks for
HasUploadField(form) ==
  hasFile(form) \/ hasUrl(form) \/ hasTextFile(form) \/ hasTextString(form)

\* C2 as stated: every create-appliance request whose multipart body carries at
\* least one of {manual file, manual URL, text file, text string} is answered
\* 202 with its job dispatched.
C2_AnyUploadAnswers202 ==
  \A id \in ApplianceIds :
    (/\ req[id].pc = "responded"
     /\ req[id].form.multipart /\ req[id].form.parsable
     /\ HasUploadField(req[id].form))
      => req[id].resp = 202 /\ job[id].pc # "idle"

\* C2 as amended: a request with an upload field and no string-valued manual
\* field, whose store calls do not throw, is answered 202; a job is dispatched
\* exactly when the answer is 202, the answer stays 202 whatever the job does,
\* and the row was there in QUEUED in the state the job was dispatched from.
C2_Accepted(form) ==
  form.multipart /\ form.parsable /\ HasUploadField(form) /\ form.manual # "string"

C2_DispatchAfterQueuedRow ==
  /\ [](\A id \in ApplianceIds :
          /\ (req[id].pc = "responded" /\ C2_Accepted(req[id].form) /\ ~req[id].threw)
               => req[id].resp = 202
          /\ req[id].pc = "responded" => (req[id].resp = 202 <=> job[id].pc # "idle")
          /\ job[id].pc # "idle" => req[id].pc = "responded" /\ req[id].resp = 202)
  /\ [][\A id \in ApplianceIds :
          (job[id].pc = "idle" /\ job'[id].pc # "idle")
            => /\ rows[id].present /\ Status(id) = "QUEUED"
               /\ rows'[id] = rows[id]
               /\ req'[id].resp = 202]_vars

\* a request answered 202 whose job later ended in FAILED
C2_Witness ==
  \E id \in ApplianceIds :
    job[id].pc = "done" /\ Status(id) = "FAILED" /\ req[id].resp = 202

\* C3: in every state where the job has performed an effect other than its
\* PROCESSING write (fetch, object-store put, text extraction, model call,
\* vector upsert), the record's status is not QUEUED.
C3_ProcessingBeforeEffects ==
  \A id \in ApplianceIds : effects[id] # {} => Status(id) # "QUEUED"

C3_Witness ==
  \E id \in ApplianceIds :
    /\ {"fetch", "putManual", "ocr", "putText"} \subseteq effects[id]
    /\ Status(id) = "PROCESSING"

\* C4 as stated: whenever a record is COMPLETED, the text is stored at its
\* extractedTextKey, the vectors are upserted, and none of extractedTextKey,
\* extractedSpecs and agentInstructions still holds its pre-ingestion value.
C4_CompletedLeavesNoInitialValue ==
  \A id \in ApplianceIds :
    Status(id) = "COMPLETED"
      => /\ rows[id].ocrTextR2Key # NullKey
         /\ bucket[TextKeyOf(rows[id].manualR2Key)] # Absent
         /\ rows[id].extractedSpecs.present
         /\ rows[id].extractedSpecs.vectorChunkCount = Cardinality(VectorsOf(id))
         /\ rows[id].agentInstructions # NullText

\* C4 as amended: whenever a record is COMPLETED the text is stored at its
\* extractedTextKey, the job's vectors are upserted and counted in
\* extractedSpecs, and extractedTextKey and extractedSpecs are set; the one
\* update that sets COMPLETED is the one that writes extractedTextKey,
\* extractedSpecs and agentInstructions, the latter being null again when the
\* synthesized instruction text is empty.
C4_CompletedWrittenAtOnce ==
  /\ [](\A id \in ApplianceIds :
          Status(id) = "COMPLETED"
            => /\ rows[id].ocrTextR2Key = TextKeyOf(rows[id].manualR2Key)
               /\ bucket[rows[id].ocrTextR2Key] # Absent
               /\ "putText" \in effects[id]
               /\ rows[id].extractedSpecs.present
               /\ rows[id].extractedSpecs.vectorChunkCount = Cardinality(VectorsOf(id))
               /\ (VectorsOf(id) # {} => "upsert" \in effects[id]))
  /\ [][\A id \in ApplianceIds :
          (Status(id) # "COMPLETED" /\ Status(id)' = "COMPLETED")
            => /\ rows[id].ocrTextR2Key = NullKey
               /\ ~rows[id].extractedSpecs.present
               /\ rows'[id].ocrTextR2Key # NullKey
               /\ rows'[id].extractedSpecs.present
               /\ rows'[id].agentInstructions =
                    (IF job[id].agentInstructions = EmptyText
                     THEN NullText ELSE job[id].agentInstructions)]_vars

\* a COMPLETED record with a vector, and one whose instructions are null
C4_Witness ==
  \E id \in ApplianceIds :
    /\ Status(id) = "COMPLETED"
    /\ rows[id].extractedSpecs.vectorChunkCount = 1
    /\ rows[id].agentInstructions = NullText

\* C5: a FAILED record carries no extractedTextKey and no extractedSpecs: a job
\* whose stage threw wrote FAILED and nothing else.
C5_FailedCarriesNothing ==
  \A id \in ApplianceIds :
    Status(id) = "FAILED"
      => rows[id].ocrTextR2Key = NullKey /\ ~rows[id].extractedSpecs.present

\* C6: a job with manual bytes and no caller-supplied text, for which neither
\* the local parser nor the OCR model produced text, does not go on with an
\* empty text and never sets COMPLETED.
C6_NoTextNeverCompletes ==
  \A id \in ApplianceIds :
    (/\ job[id].manualBytes # NoBytes
     /\ ~Truthy(job[id].extractedText)
     /\ job[id].localText = NullText
     /\ job[id].manualText = EmptyText)
      => Status(id) # "COMPLETED"

\* C7: a job whose only failure is the spec-extraction or the
\* instruction-synthesis call does not write FAILED.
C7_BestEffortNeverFails ==
  \A id \in ApplianceIds :
    job[id].failedAt \in {"spec", "instr"} => Status(id) # "FAILED"

\* the call has returned for a document whose local text has `l` characters
\* and whose OCR text has `o` characters
PdfReturnedFor(l, o) ==
  /\ pdf.pc = "returned"
  /\ pdf.local # NullText /\ Len(pdf.local) = l
  /\ pdf.ocr # ThrownText /\ Len(pdf.ocr) = o

\* C8 as stated: for a local text of length 1000 and an OCR text of length 100
\* the resolver returns the local text; for a local text of length 1000 and an
\* OCR text of length 900 it returns the OCR text.
C8_QualityFallbackAt1000 ==
  /\ PdfReturnedFor(1000, 100) => pdf.result = pdf.local
  /\ PdfReturnedFor(1000, 900) => pdf.result = pdf.ocr

\* C8 as amended: a local text of length 1000 is returned whatever the OCR
\* text would be (100 or 900 characters), the OCR model not being asked; the
\* one-quarter comparison decides only for a local text of at most 200
\* characters: local 200 and OCR 49 gives the local text, local 200 and OCR 50
\* or 900 gives the OCR text.
C8_QualityFallbackBelowThreshold ==
  /\ (PdfReturnedFor(1000, 100) \/ PdfReturnedFor(1000, 900))
       => pdf.result = pdf.local /\ ~pdf.ocrCalled
  /\ PdfReturnedFor(200, 49) => pdf.result = pdf.local /\ pdf.ocrCalled
  /\ (PdfReturnedFor(200, 50) \/ PdfReturnedFor(200, 900))
       => pdf.result = pdf.ocr /\ pdf.ocrCalled

C8_Witness == PdfReturnedFor(1000, 900) /\ pdf.result = pdf.local

\* C9 as stated: a job that carries non-empty caller-supplied text resolves to
\* that text trimmed, invokes neither the local parser nor the OCR model, does
\* not fetch manualUrl, and does not fail on account of manualUrl.
C9_TextSkipsAcquisition ==
  \A id \in ApplianceIds :
    Truthy(job[id].extractedText)
      => /\ job[id].manualText # NullText
            => job[id].manualText = Trim(job[id].extractedText)
         /\ effects[id] \cap {"localExtract", "ocr"} = {}
         /\ "fetch" \notin effects[id]
         /\ job[id].failedAt \notin {"url", "download"}

\* the job has no byte payload and a manualUrl the URL checks turn away
UrlRejected(j) ==
  /\ j.pdfBytes = NoBytes /\ j.manualUrl # NoUrl
  /\ ~j.manualUrl.wellFormed \/ ~AllowedProtocol(j.manualUrl)

\* C9 as amended: a job that carries non-empty caller-supplied text resolves to
\* that text trimmed, stores it, and invokes neither the local parser nor the
\* OCR model; bytes are still acquired first: without a byte payload a
\* manualUrl is checked and fetched before the text is used, so the text is
\* stored only after the fetch, and a URL the checks turn away makes the job
\* fail with no text stored and no COMPLETED status.
C9_TextUsedAfterAcquisition ==
  \A id \in ApplianceIds :
    Truthy(job[id].extractedText)
      => /\ job[id].manualText # NullText
            => job[id].manualText = Trim(job[id].extractedText)
         /\ "putText" \in effects[id]
            => bucket[TextKeyOf(job[id].manualKey)] = Trim(job[id].extractedText)
         /\ effects[id] \cap {"localExtract", "ocr"} = {}
         /\ (job[id].pdfBytes = NoBytes /\ job[id].manualUrl # NoUrl
             /\ "putText" \in effects[id])
              => {"fetch", "putManual"} \subseteq effects[id]
         /\ UrlRejected(job[id])
              => /\ "putText" \notin effects[id]
                 /\ Status(id) # "COMPLETED"
                 /\ job[id].pc = "done" => Status(id) = "FAILED"

\* a text job that fetched its manualUrl, and stored the trimmed text
C9_Witness ==
  \E id \in ApplianceIds :
    /\ job[id].extractedText = <<" ", "a", " ">>
    /\ {"fetch", "putText"} \subseteq effects[id]
    /\ bucket[TextKeyOf(job[id].manualKey)] = <<"a">>

\* the job was given a well-formed manualUrl whose scheme is not http or https
OtherScheme(j) ==
  j.manualUrl # NoUrl /\ j.manualUrl.wellFormed /\ ~AllowedProtocol(j.manualUrl)

ObjectWrites == {"putManual", "putText"}

\* C10 as stated: every fetched URL has protocol http: or https:, and every
\* finished job whose manualUrl has another scheme is FAILED with no
\* object-store write.
C10_OtherSchemeAlwaysFails ==
  /\ \A u \in fetched : UrlProtocol(u) \in {"http:", "https:"}
  /\ \A id \in ApplianceIds :
       (job[id].pc = "done" /\ OtherScheme(job[id]))
         => Status(id) = "FAILED" /\ effects[id] \cap ObjectWrites = {}

\* C10 as amended: every fetched URL has protocol http: or https:; a job
\* without a byte payload whose manualUrl has another scheme performs no fetch
\* and no object-store write, never sets COMPLETED, and is FAILED once it has
\* finished; a job with a byte payload never looks at manualUrl.
C10_NoFetchOfOtherScheme ==
  /\ \A u \in fetched : UrlProtocol(u) \in {"http:", "https:"}
  /\ \A id \in ApplianceIds :
       /\ (OtherScheme(job[id]) /\ job[id].pdfBytes = NoBytes)
            => /\ effects[id] \cap (ObjectWrites \cup {"fetch"}) = {}
               /\ Status(id) # "COMPLETED"
               /\ job[id].pc = "done" => Status(id) = "FAILED"
       /\ job[id].pdfBytes # NoBytes => "fetch" \notin effects[id]

\* a finished job without byte payload whose manualUrl is an ftp URL
C10_Witness ==
  \E id \in ApplianceIds :
    /\ job[id].pc = "done" /\ OtherScheme(job[id]) /\ job[id].pdfBytes = NoBytes
    /\ Status(id) = "FAILED"

\* the manual_url field holds a well-formed URL whose scheme is not http or https
InvalidSchemeForm(form) ==
  hasUrl(form) /\ form.url.wellFormed /\ ~AllowedProtocol(form.url)

\* C11 as stated: a create-appliance request that has none of the upload
\* fields, or whose manual URL has a scheme other than http or https, is
\* answered with a 4xx status and no ingestion job is dispatched for it.
C11_InvalidInputAnswered4xx ==
  \A id \in ApplianceIds :
    (/\ req[id].pc = "responded"
     /\ req[id].form.multipart /\ req[id].form.parsable
     /\ ~HasUploadField(req[id].form) \/ InvalidSchemeForm(req[id].form))
      => req[id].resp \in 400..499 /\ job[id].pc = "idle"

\* C11 as amended: a request with a wrong content type, an unreadable form,
\* none of the upload fields, or a string-valued manual field is answered 400
\* before anything is stored or dispatched: a request answered 4xx has no row,
\* no job and no effect. The scheme of the manual URL is not looked at by the
\* handler: such a request, otherwise valid and with no store call throwing,
\* is answered 202 with its job dispatched, and the job turns the URL away.
C11_ValidationBeforeDispatch ==
  \A id \in ApplianceIds :
    /\ (req[id].pc = "responded" /\ ~C2_Accepted(req[id].form))
         => req[id].resp = 400
    /\ req[id].resp \in 400..499
         => /\ job[id].pc = "idle" /\ effects[id] = {}
            /\ ~rows[id].present /\ ~req[id].threw
    /\ (/\ req[id].pc = "responded" /\ C2_Accepted(req[id].form)
        /\ InvalidSchemeForm(req[id].form) /\ ~req[id].threw)
         => /\ req[id].resp = 202 /\ job[id].pc # "idle"
            /\ job[id].manualUrl = req[id].form.url

\* a request with an ftp manual URL and nothing else, answered 202, whose job
\* has ended in FAILED without a fetch
C11_Witness ==
  \E id \in ApplianceIds :
    /\ req[id].resp = 202 /\ InvalidSchemeForm(req[id].form)
    /\ ~hasFile(req[id].form) /\ req[id].form.text = NoTextField
    /\ job[id].pc = "done" /\ job[id].failedAt = "url" /\ Status(id) = "FAILED"
    /\ fetched = {}

\* C12: the chunks an ingestion job embeds are at most 40 whatever the text:
\* the capped chunk list has at most 40 entries, the loop makes at most 40
\* embedding calls, and the vectorChunkCount it records is at most 40.
C12_AtMostFortyChunks ==
  /\ Len(cap.chunkLens) <= MaxChunks
  /\ cap.index <= MaxChunks
  /\ cap.calls <= MaxChunks
  /\ cap.vectors <= cap.calls
  /\ cap.vectorChunkCount <= MaxChunks

\* a manual that chunkManualText cuts into 41 chunks, of which the job has
\* embedded and counted 40
C12_Witness ==
  /\ cap.pc = "counted"
  /\ cap.produced = MaxChunks + 1
  /\ cap.calls = MaxChunks
  /\ cap.vectorChunkCount = MaxChunks

\* the last n characters of s (n <= Len(s)), and s without its first n
LastChars(s, n) == SubSeq(s, Len(s) - n + 1, Len(s))
DropChars(s, n) == SubSeq(s, n + 1, Len(s))
StartsWith(s, p) == Len(s) >= Len(p) /\ SubSeq(s, 1, Len(p)) = p

\* s without the whitespace it starts with
TrimStart(s) ==
  IF \A i \in 1..Len(s) : s[i] \in WhiteSpace THEN << >>
  ELSE SubSeq(s, FirstOutside(s, WhiteSpace), Len(s))

\* what a chunk takes over from the chunk before it: that chunk's last
\* `overlap` characters (all of it when it is shorter), less leading whitespace
Reintroduced(prev, overlap) ==
  TrimStart(IF Len(prev) <= overlap THEN prev ELSE LastChars(prev, overlap))

\* C13 as stated: for every chunk after the first whose predecessor has at
\* least `overlap` characters, the chunk's first `overlap` characters are the
\* predecessor's last `overlap` characters, also when these begin with
\* whitespace or a paragraph separator.
C13_PrefixEqualsSuffix ==
  chunker.pc = "returned" =>
    \A i \in 2..Len(chunker.chunks) :
      Len(chunker.chunks[i - 1]) >= chunker.overlap
        => StartsWith(chunker.chunks[i],
                      LastChars(chunker.chunks[i - 1], chunker.overlap))

\* C13 as amended: every chunk after the first begins with the last `overlap`
\* characters of its predecessor (all of the predecessor when it is shorter)
\* less the whitespace these begin with, followed by a paragraph separator; so
\* its first `overlap` characters equal the predecessor's last `overlap`
\* characters exactly when these do not begin with whitespace.
C13_PrefixIsTrimmedSuffix ==
  chunker.pc = "returned" =>
    \A i \in 2..Len(chunker.chunks) :
      LET prev == chunker.chunks[i - 1]
          this == chunker.chunks[i]
      IN  /\ StartsWith(this, Reintroduced(prev, chunker.overlap) \o <<"NL", "NL">>)
          /\ Len(prev) >= chunker.overlap
               => (StartsWith(this, LastChars(prev, chunker.overlap))
                     <=> LastChars(prev, chunker.overlap)[1] \notin WhiteSpace)

\* a second chunk whose predecessor's last two characters are a blank and a
\* letter: the chunk begins with the letter
C13_Witness ==
  /\ chunker.pc = "returned" /\ chunker.overlap = 2
  /\ Len(chunker.chunks) >= 2
  /\ Len(chunker.chunks[1]) >= 2
  /\ LastChars(chunker.chunks[1], 2)[1] = " "
  /\ chunker.chunks[2][1] = LastChars(chunker.chunks[1], 2)[2]

\* the paragraphs a piece of a chunk is made of
PieceParagraphs(piece) == TrimAndFilter(SplitBlankLines(piece))

\* the paragraphs joined by blank lines
RECURSIVE JoinAll(_)
JoinAll(paras) ==
  IF paras = << >> THEN << >>
  ELSE IF Len(paras) = 1 THEN paras[1]
  ELSE paras[1] \o <<"NL", "NL">> \o JoinAll(Tail(paras))

\* chunk i without what it takes over from chunk i - 1
FreshPart(chunks, overlap, i) ==
  IF i = 1 THEN chunks[1]
  ELSE DropChars(chunks[i], Len(Reintroduced(chunks[i - 1], overlap)))

\* the paragraphs of the fresh parts of the chunks i, i + 1, .., in order
RECURSIVE Rebuilt(_, _, _)
Rebuilt(chunks, overlap, i) ==
  IF i > Len(chunks) THEN << >>
  ELSE PieceParagraphs(FreshPart(chunks, overlap, i)) \o Rebuilt(chunks, overlap, i + 1)

\* C14: without the prefix each chunk after the first takes over from its
\* predecessor, the chunks are made of whole paragraphs, and read in order
\* they give the non-empty trimmed paragraphs of the text, each once.
C14_ChunksCoverParagraphs ==
  chunker.pc = "returned" =>
    /\ Rebuilt(chunker.chunks, chunker.overlap, 1) = Paragraphs(chunker.text)
    /\ \A i \in 1..Len(chunker.chunks) :
         LET fresh == FreshPart(chunker.chunks, chunker.overlap, i) IN
         /\ i > 1 => /\ StartsWith(fresh, <<"NL", "NL">>)
                     /\ PieceParagraphs(fresh) # << >>
                     /\ DropChars(fresh, 2) = JoinAll(PieceParagraphs(fresh))
         /\ (i = 1 /\ Paragraphs(chunker.text) # << >>)
              => fresh = JoinAll(PieceParagraphs(fresh))

\* three paragraphs in two chunks: two in the first, the third in the second
\* after the overlap
C14_Witness ==
  /\ chunker.pc = "returned"
  /\ Len(Paragraphs(chunker.text)) = 3
  /\ Len(chunker.chunks) = 2
  /\ Len(PieceParagraphs(chunker.chunks[1])) = 2

\* C15: on a COMPLETED record extractedSpecs.vectorChunkCount is the number of
\* vector entries the job wrote to the index: the update that sets COMPLETED
\* counts the vectors the job has upserted, a chunk whose embedding was empty
\* being neither written nor counted, and it writes the count whether or not
\* specs were extracted.
C15_CountIsVectorsWritten ==
  /\ [](\A id \in ApplianceIds :
          Status(id) = "COMPLETED"
            => /\ rows[id].extractedSpecs.present
               /\ rows[id].extractedSpecs.vectorChunkCount = Cardinality(VectorsOf(id)))
  /\ [][\A id \in ApplianceIds :
          (Status(id) # "COMPLETED" /\ Status(id)' = "COMPLETED")
            => /\ job[id].index = Len(job[id].chunks)
               /\ job[id].vectors \subseteq 0..(Len(job[id].chunks) - 1)
               /\ VectorsOf(id) = {<<id, i>> : i \in job[id].vectors}
               /\ rows'[id].extractedSpecs.vectorChunkCount
                    = Cardinality(job[id].vectors)]_vars

\* a manual of three chunks, the first of which got an empty embedding, with
\* no specs extracted: the record counts the two vectors written
C15_Witness ==
  \E id \in ApplianceIds :
    /\ Status(id) = "COMPLETED"
    /\ ~rows[id].extractedSpecs.parsed
    /\ rows[id].extractedSpecs.vectorChunkCount = 2
    /\ VectorsOf(id) = {<<id, 1>>, <<id, 2>>}

\* C16: a job whose text gives N chunks writes exactly the vector ids
\* appliance:X:chunk:0 .. appliance:X:chunk:N-1: when it sets COMPLETED, the
\* index holds for the appliance one entry for each chunk index below N and no
\* other entry.
C16_IdsAreZeroToNMinusOne ==
  \A id \in ApplianceIds :
    (job[id].pc = "finalRead" /\ Status(id) = "COMPLETED")
      => VectorsOf(id) = {<<id, i>> : i \in 0..(Len(job[id].chunks) - 1)}

\* the ids appliance:X:chunk:0 .. appliance:X:chunk:k-1
ChunkIds(id, k) == {<<id, i>> : i \in 0..(k - 1)}

\* the delete-appliance request found the record and has got as far as `pcs`
DelReached(pcs) == del.appliance.present /\ del.pc \in pcs

\* C17 as stated: a delete-appliance request answered with success issued
\* vector deletion for exactly the ids chunk:0 .. chunk:k-1 when the record's
\* vectorChunkCount is k > 0, and for the single legacy id instead when the
\* count is absent or zero; it issued the deletion of the record's manual and
\* extracted-text keys, and the row is gone.
C17_ExactlyTheChunkIds ==
  (DelReached({"responded"}) /\ del.resp = 200)
    => LET k == ChunkCountOf(del.appliance) IN
       /\ k > 0 => /\ del.vecIds \cup del.legacyIds = ChunkIds(del.id, k)
                   /\ del.keys = {del.appliance.manualR2Key,
                                  del.appliance.ocrTextR2Key}
       /\ k = 0 => del.vecIds \cup del.legacyIds = {LegacyId(del.id)}
       /\ ~rows[del.id].present

\* C17 as amended: on the appliance index the request issues deletion for
\* exactly chunk:0 .. chunk:k-1 when the record's vectorChunkCount is k > 0,
\* and for the legacy id when the count is absent or zero; in both cases it
\* also issues deletion of the legacy id on the recipe index. It issues the
\* deletion of the manual key and, where the record has one, of the
\* extracted-text key (a record with k > 0 has both), and the row is removed
\* by this request's DELETE and is gone when the answer is success.
C17_DeleteIssuesChunkIds ==
  /\ [](LET k == ChunkCountOf(del.appliance) IN
        /\ DelReached({"delVec", "delLegacy", "delCheck", "delRow", "responded"})
             => /\ del.keys = {del.appliance.manualR2Key}
                     \cup (IF del.appliance.ocrTextR2Key # NullKey
                           THEN {del.appliance.ocrTextR2Key} ELSE {})
                /\ k > 0 => del.keys = {ManualKeyOf(AdminUser, del.id),
                                        TextKeyOf(ManualKeyOf(AdminUser, del.id))}
        /\ DelReached({"delLegacy", "delCheck", "delRow", "responded"})
             => del.vecIds = (IF k > 0 THEN ChunkIds(del.id, k) ELSE {LegacyId(del.id)})
        /\ DelReached({"delCheck", "delRow", "responded"})
             => del.legacyIds = {LegacyId(del.id)}
        /\ (del.pc = "responded" /\ del.resp = 200)
             => del.appliance.present /\ ~rows[del.id].present)
  /\ [][\A id \in ApplianceIds :
          (rows[id].present /\ ~rows'[id].present)
            => del.pc = "delRow" /\ del.id = id /\ del'.resp = 200]_vars

\* a record with vectorChunkCount = 3 deleted: three chunk ids issued, both
\* keys issued, the row, the vectors and the stored text gone
C17_Witness ==
  /\ del.pc = "responded" /\ del.resp = 200
  /\ ChunkCountOf(del.appliance) = 3
  /\ del.vecIds = ChunkIds(del.id, 3)
  /\ Cardinality(del.keys) = 2
  /\ ~rows[del.id].present
  /\ VectorsOf(del.id) = {}
  /\ bucket[TextKeyOf(ManualKeyOf(AdminUser, del.id))] = Absent

\* C18 as stated: an authenticated adapt-recipe request that found the recipe
\* and the caller's own COMPLETED appliance is answered with success, a step
\* list and a summary, whatever fails afterwards (summarization, embedding,
\* vector query, object-store read, generation model).
C18_AdaptsOncePastTheChecks ==
  (/\ adapt.pc = "responded"
   /\ adapt.recipeFound
   /\ adapt.appliance.present
   /\ adapt.appliance.processingStatus = "COMPLETED")
    => adapt.resp = 200

\* C19: when the generation model returns a text that cannot be parsed,
\* adapt-recipe answers 200 with the recipe's original steps, in their order,
\* and a non-empty summary.
C19_UnparsableGivesOriginalSteps ==
  (/\ adapt.pc = "responded"
   /\ adapt.genText
   /\ ~JsonParse(StripFence(adapt.raw)).ok)
    => /\ adapt.resp = 200
       /\ adapt.tailoredSteps = adapt.originalSteps
       /\ adapt.summaryOfChanges # ""

\* C19 witness: the model answered prose for a recipe of two steps, after the
\* vector query and the object-store read both came back
C19_Witness ==
  /\ adapt.pc = "responded"
  /\ adapt.genText
  /\ adapt.raw = <<Prose>>
  /\ adapt.originalSteps = <<"s1", "s2">>
  /\ adapt.tailoredSteps = <<"s1", "s2">>
  /\ adapt.summaryOfChanges = UnableSummary
  /\ {"query", "bucketGet"} \subseteq adapt.calls
  /\ adapt.resp = 200

\* C20 as stated: a job that has terminated, by returning or by rejecting,
\* leaves its appliance record COMPLETED or FAILED, never QUEUED or PROCESSING,
\* also when the PROCESSING write or the FAILED write is the call that errors.
C20_TerminatedJobLeavesTerminalStatus ==
  \A id \in ApplianceIds :
    job[id].pc \in {"done", "rejected"} => Status(id) \in Terminal

\* C21 as stated: the COMPLETED update of the job leaves a brand and a model
\* that are already on the record as they are; it writes a discovered brand or
\* model only into a field that was unset.
C21_SetBrandModelKept ==
  [][\A id \in ApplianceIds :
       (job[id].pc = "finalUpdate" /\ job'[id].pc # "finalUpdate")
         => /\ rows[id].brand # "null" => rows'[id].brand = rows[id].brand
            /\ rows[id].model # "null" => rows'[id].model = rows[id].model]_vars

\* C22: extractTextFromPdf returns a local text of more than 200 characters
\* without asking the OCR model; it asks the OCR model only when the local text
\* is absent or at most 200 characters long, and then returns the local text
\* if there is one and the OCR text is shorter than a quarter of it, else the
\* OCR text if it is not empty, else the local text, else the empty text.
C22_ResolverChoice ==
  pdf.pc = "returned" =>
    IF pdf.local # NullText /\ Len(pdf.local) > 200
    THEN pdf.result = pdf.local /\ ~pdf.ocrCalled
    ELSE /\ pdf.ocrCalled
         /\ pdf.result =
              IF pdf.local # NullText /\ 4 * Len(pdf.ocr) < Len(pdf.local)
              THEN pdf.local
              ELSE IF Len(pdf.ocr) > 0 THEN pdf.ocr
              ELSE IF pdf.local # NullText THEN pdf.local
              ELSE EmptyText

\* C22 witness: a local text of 100 characters and an OCR text of 24: the OCR
\* model was asked and the local text returned
C22_Witness ==
  /\ pdf.pc = "returned"
  /\ pdf.local # NullText /\ Len(pdf.local) = 100
  /\ Len(pdf.ocr) = 24
  /\ pdf.ocrCalled
  /\ pdf.result = pdf.local

\* the place of an effect in the order of the stages
EffectRank(e) ==
  CASE e = "fetch" -> 1
    [] e = "putManual" -> 2
    [] e = "localExtract" -> 3
    [] e = "ocr" -> 4
    [] e = "putText" -> 5
    [] e = "specCall" -> 6
    [] e = "instrCall" -> 7
    [] e = "embed" -> 8
    [] e = "upsert" -> 9

\* the job obtained manual bytes and failed at a stage after their storing
FailedAfterBytes(id) ==
  /\ job[id].pdfBytes # NoBytes \/ "fetch" \in effects[id]
  /\ job[id].failedAt \notin {"none", "procUpdate", "procRead", "url", "download",
                              "storeManual", "noInput"}

C24_ChunksWithinSize ==
  chunker.pc = "returned"
    => \A i \in 1..Len(chunker.chunks) : Len(chunker.chunks[i]) <= chunker.chunkSize

\* C25 as stated: a failing embedding call never fails the ingestion job: the
\* chunk is skipped as one with an empty vector and the job goes on.
C25_EmbeddingFailureNeverFailsJob ==
  \A id \in ApplianceIds : job[id].failedAt # "embed"

\* the handler is past the choice of the manual excerpts
PastExcerpts ==
  \/ adapt.pc = "generate"
  \/ adapt.pc = "responded" /\ (adapt.resp = 200 \/ adapt.threwAt = "generate")

\* C26: the vector query of adapt-recipe is filtered to the requested
\* appliance id and the caller's id, with topK 5; at most 5 excerpts go to the
\* generation model; the stored text is read exactly when the query gave no
\* excerpt and the record has a text key, and then the excerpts are the first
\* 5 chunks of the text chunked by 800 with overlap 100 (one chunk for each
\* paragraph of 600 characters).
C26_ExcerptsFromQueryOrStoredText ==
  /\ adapt.query # NoQuery
       => adapt.query = [applianceId |-> adapt.applianceId, userId |-> adapt.userId,
                         topK |-> 5]
  /\ adapt.excerpts <= 5
  /\ PastExcerpts
       => /\ "bucketGet" \in adapt.calls
               <=> (adapt.matched = 0 /\ adapt.appliance.ocrTextR2Key # NullKey)
          /\ adapt.matched > 0 => adapt.excerpts = adapt.matched
          /\ ("bucketGet" \in adapt.calls /\ ~adapt.readFailed
                /\ bucket[adapt.appliance.ocrTextR2Key] # Absent)
               => LET n == (Len(bucket[adapt.appliance.ocrTextR2Key]) + Len(ParaSep))
                             \div (LongParaLen + Len(ParaSep))
                  IN  adapt.excerpts = IF n > 5 THEN 5 ELSE n

\* C26 witness: the query ran and matched nothing, the stored text of six
\* paragraphs was read, and five excerpts went to the generation model
C26_Witness ==
  /\ adapt.pc = "responded"
  /\ adapt.resp = 200
  /\ "query" \in adapt.calls
  /\ adapt.matched = 0
  /\ "bucketGet" \in adapt.calls
  /\ adapt.excerpts = 5
  /\ Cardinality(VectorsOf(adapt.applianceId)) = 6

\* C27 as stated: when delete-appliance runs on a record its job has left
\* COMPLETED, the vector ids whose deletion it issues are the ids the job
\* wrote, whatever the embedding outcomes were: no entry of the appliance is
\* left in the index that the delete did not name.
C27_DeleteNamesEveryWrittenId ==
  (/\ del.pc \in {"delLegacy", "delCheck", "delRow", "responded"}
   /\ del.appliance.present
   /\ del.appliance.processingStatus = "COMPLETED")
    => VectorsOf(del.id) \subseteq del.vecIds

\* C28 as stated: when delete-appliance has succeeded on a record whose job
\* was still in flight (QUEUED or PROCESSING), then once the job has returned
\* too the row is absent and neither the manual object, nor the text object,
\* nor any vector of the appliance remains.
C28_NothingLeftAfterDeleteInFlight ==
  (/\ del.pc = "responded" /\ del.resp = 200
   /\ del.appliance.present
   /\ del.appliance.processingStatus \in {"QUEUED", "PROCESSING"}
   /\ job[del.id].pc = "done")
    => /\ ~rows[del.id].present
       /\ bucket[job[del.id].manualKey] = Absent
       /\ bucket[TextKeyOf(job[del.id].manualKey)] = Absent
       /\ VectorsOf(del.id) = {}

\* the caller of a handler is a user other than the owner of the record it names
Foreign(userId, id) ==
  userId # "none" /\ rows[id].present /\ rows[id].userId # userId

\* the fields of a record that update-appliance may write
Patchable == {"nickname", "brand", "model", "agentInstructions"}

C30_NeverEmptyAdaptation ==
  (/\ adapt.pc = "responded"
   /\ adapt.resp = 200
   /\ adapt.originalSteps # << >>)
    => /\ adapt.tailoredSteps # << >>
       /\ adapt.summaryOfChanges # ""

====
